---- MODULE Spec2Model ----
(***************************************************************************)
(* Verification model of the rust-executor crate: security policy,        *)
(* filesystem executor, command executor, NDJSON protocol handler,        *)
(* streaming worker pool (semaphore, circuit breaker) and chunk batcher.  *)
(* Each subsystem has its own variables and its own specification; the    *)
(* variables of the other subsystems stay at their initial values.        *)
(***************************************************************************)
EXTENDS Integers, Sequences, FiniteSets, TLC

VARIABLES
    \* ---- filesystem executor (executors/filesystem.rs) ----
    fsys,        \* the file system: node -> [k: absent|dir|file, c: content]
    fs_tmp,      \* write_file calls between fs::write(temp) and fs::rename
    fs_last,     \* the last request executed and its ExecutionResponse
    fs_ops,      \* number of filesystem requests started so far
    fs_written,  \* path -> content of the last completed write not yet superseded
    \* ---- command executor (executors/command.rs) ----
    cmd_ctx,        \* CommandExecutor.security_context
    cmd_whitelist,  \* CommandExecutor.command_whitelist
    cmd_last,       \* the last command request, its response, whether it spawned
    cmd_spawned,    \* number of child processes spawned so far
    cmd_ops,        \* number of command requests executed so far
    \* ---- NDJSON protocol handler (protocol/communication.rs) ----
    pr_clock,     \* std::time::Instant::now(), in seconds
    pr_sessions,  \* CommunicationHandler.active_sessions
    pr_pending,   \* the line that passed check_rate_limit and awaits processing
    pr_hist,      \* the last lines answered, each with the message sent for it
    pr_lines,     \* number of lines read from the input so far
    pr_passed,    \* session -> instants at which a line passed check_rate_limit
    pr_registry,  \* CommunicationHandler.registry: executors and contexts registered
    pr_cleaned,   \* cleanup_expired_sessions ran and nothing was read or timed since
    lp_pc,        \* run_communication_loop and its input and output tasks: positions
    lp_queue,     \* the unbounded channel from the input task to the output task
    lp_written,   \* the messages written to the output and flushed, in order
    \* ---- streaming worker pool (streaming/worker_pool.rs) ----
    wp_clock,     \* std::time::Instant::now(), in units of the recovery period
    wp_strategy,  \* WorkerPoolConfig.backpressure_strategy
    wp_permits,   \* available permits of concurrency_limit
    wp_breaker,   \* circuit_breaker_state
    wp_subs,      \* the calls of execute_file_stream, each with its position
    wp_tasks,     \* the spawned tasks, each with its position
    wp_setters,   \* spawned tasks that will set the breaker to HalfOpen
    wp_streak,    \* failures recorded since the last success, up to the threshold
    wp_trip_at,   \* the instant of the last failure that completed such a streak, if any
    wp_inserts,   \* spawned tasks that will insert a TaskHandle into active_tasks
    wp_active,    \* StreamingWorkerPool.active_tasks, by submission
    wp_cancels,   \* the calls of cancel_task, each with its result
    wp_shutdown,  \* the call of shutdown_gracefully: its position and what it did
    am_metrics,   \* AtomicMetrics: active_streams and the two peaks
    am_calls,     \* caller -> its position in stream_started / update_memory_usage
    am_seen,      \* the largest active_streams and memory usage so far, calls made
    \* ---- chunk batcher on its own (streaming/chunk_batcher.rs) ----
    bt_batcher,   \* ChunkBatcher.current_batch
    bt_handed,    \* the batch the last call handed to batch_callback, if any
    bt_calls,     \* number of calls made on the batcher so far
    bt_call,      \* the last call on the batcher: operation, context_type, result
    \* ---- entry points of RustExecutor (lib.rs, streaming/mod.rs) ----
    en_initialized,  \* RustExecutor.initialized
    en_calls,        \* number of entry-point calls so far
    en_effects,      \* files opened and children spawned, each with the policy's verdict
    st_batcher,      \* StreamingEngine.chunk_batcher and the callback it was built with
    st_streams,      \* the streams started, each with its position
    st_delivered,    \* callback -> the chunks it received, in order
    mx_metrics,      \* RustExecutor.performance_metrics: the three request counters
    mx_lock,         \* the caller holding the write lock of performance_metrics, or 0
    mx_callers,      \* concurrent callers of execute, read_file_fast and reset
    mx_started       \* number of calls those callers have started

fsVars == <<fsys, fs_tmp, fs_last, fs_ops, fs_written>>
cmdVars == <<cmd_ctx, cmd_whitelist, cmd_last, cmd_spawned, cmd_ops>>

lpVars == <<lp_pc, lp_queue, lp_written>>
prVars == <<pr_clock, pr_sessions, pr_pending, pr_hist, pr_lines, pr_passed, pr_registry,
           pr_cleaned, lpVars>>

regVars == <<wp_inserts, wp_active, wp_cancels, wp_shutdown>>
amVars == <<am_metrics, am_calls, am_seen>>
wpVars == <<wp_clock, wp_strategy, wp_permits, wp_breaker, wp_subs, wp_tasks,
            wp_setters, wp_streak, wp_trip_at, regVars, amVars>>

coreVars == <<fsVars, cmdVars, prVars>>
btVars == <<bt_batcher, bt_handed, bt_calls, bt_call>>
mxVars == <<mx_metrics, mx_lock, mx_callers, mx_started>>
enVars == <<en_initialized, en_calls, en_effects, st_batcher, st_streams, st_delivered,
            mxVars>>

streamVars == <<wpVars, btVars, enVars>>
nonPoolVars == <<coreVars, btVars, enVars>>

vars == <<coreVars, streamVars>>

(***************************************************************************)
(* Paths.  A path is a sequence of components, a component is a pair      *)
(* <<stem, extension>> (std::path::Path compares component-wise).         *)
(***************************************************************************)
D(s) == <<s, "">>
F(s, e) == <<s, e>>
DotDot == <<"..", "">>

TmpDir == <<D("tmp")>>
EtcDir == <<D("etc")>>
HomeDir == <<D("home")>>

\* Every location the model's file system can hold.
Nodes ==
    { <<>>, TmpDir, EtcDir, HomeDir,
      TmpDir \o <<F("a", "txt")>>, TmpDir \o <<F("a", "tmp")>>,
      TmpDir \o <<D("d")>>, TmpDir \o <<F("d", "tmp")>>,
      EtcDir \o <<F("passwd", "")>>,
      EtcDir \o <<F("new", "txt")>>, EtcDir \o <<F("new", "tmp")>>,
      HomeDir \o <<F("x", "txt")>> }

\* The paths a request may name.
ReqPaths ==
    { TmpDir \o <<F("a", "txt")>>,
      TmpDir \o <<F("a", "tmp")>>,
      TmpDir \o <<D("d")>>,
      EtcDir \o <<F("passwd", "")>>,
      TmpDir \o <<DotDot, D("etc"), F("new", "txt")>>,
      HomeDir \o <<F("x", "txt")>> }

\* File contents are byte sequences; their length is content.len().
MaxContentLen == 2
Bytes == {1, 2}
Contents == UNION { [1..n -> Bytes] : n \in 0..MaxContentLen }

Absent == [k |-> "absent", c |-> <<>>]
DirNode == [k |-> "dir", c |-> <<>>]
FileNode(c) == [k |-> "file", c |-> c]

\* Path::starts_with: component-wise prefix.
starts_with(p, base) ==
    /\ Len(base) <= Len(p)
    /\ SubSeq(p, 1, Len(base)) = base

\* Path::parent
parent(p) == SubSeq(p, 1, Len(p) - 1)

\* Path::with_extension: replaces the extension of the last component.
with_extension(p, e) ==
    IF Len(p) = 0 \/ p[Len(p)] = DotDot THEN p
    ELSE [p EXCEPT ![Len(p)] = <<p[Len(p)][1], e>>]

\* The location the operating system resolves a path to ('..' steps up).
NormalizeStep(front, last) ==
    IF last = DotDot
    THEN (IF Len(front) = 0 THEN <<>> ELSE SubSeq(front, 1, Len(front) - 1))
    ELSE Append(front, last)

RECURSIVE Normalize(_)
Normalize(p) ==
    IF Len(p) = 0 THEN <<>>
    ELSE NormalizeStep(Normalize(SubSeq(p, 1, Len(p) - 1)), p[Len(p)])

IsDirAt(fs, n) == n \in Nodes /\ fs[n].k = "dir"

\* Every directory the path walks through exists.
Walkable(fs, p) ==
    \A i \in 0..(Len(p) - 1) : IsDirAt(fs, Normalize(SubSeq(p, 1, i)))

\* Path::exists / fs::metadata succeeds
PathExists(fs, p) ==
    /\ Walkable(fs, p)
    /\ Normalize(p) \in Nodes
    /\ fs[Normalize(p)].k # "absent"

PathIsDir(fs, p) == PathExists(fs, p) /\ fs[Normalize(p)].k = "dir"
PathIsFile(fs, p) == PathExists(fs, p) /\ fs[Normalize(p)].k = "file"

\* path.canonicalize().unwrap_or_else(|_| path.to_path_buf()):
\* canonicalize fails when the target does not exist, and the literal path,
\* '..' components included, is used instead.
canonicalize_or_literal(fs, p) ==
    IF PathExists(fs, p) THEN Normalize(p) ELSE p

(***************************************************************************)
(* Security policy (security/capabilities.rs)                             *)
(***************************************************************************)
FileRead(p) == [cap |-> "FileRead", path |-> p]
FileWrite(p) == [cap |-> "FileWrite", path |-> p]
ProcessSpawn == [cap |-> "ProcessSpawn", path |-> <<>>]
TempFileAccess == [cap |-> "TempFileAccess", path |-> <<>>]

DefaultRestrictedPaths ==
    { <<D("etc")>>, <<D("sys")>>, <<D("proc")>>, <<D("dev")>>, <<D("root")>> }

DefaultEnvAllowlist == {"PATH", "HOME", "USER", "TEMP", "TMP", "NODE_ENV"}

\* SecurityContext::new; the working directory of the service is the temp dir.
SecurityContext_new ==
    [ capabilities |-> {},
      allowed_paths |-> {TmpDir},
      restricted_paths |-> DefaultRestrictedPaths,
      environment_allowlist |-> DefaultEnvAllowlist ]

\* SecurityContext::for_file_operations(base_path)
for_file_operations(base) ==
    [ SecurityContext_new EXCEPT
        !.capabilities = {FileRead(base), FileWrite(base), TempFileAccess},
        !.allowed_paths = {base, TmpDir} ]

\* SecurityContext::for_command_execution
for_command_execution ==
    [ SecurityContext_new EXCEPT !.capabilities = {ProcessSpawn, TempFileAccess} ]

\* validate_path_access without the loop over the restricted roots.
validate_path_access_allowed_only(ctx, fs, path) ==
    LET canonical_path == canonicalize_or_literal(fs, path)
    IN  \E a \in ctx.allowed_paths :
            starts_with(canonical_path, canonicalize_or_literal(fs, a))

\* SecurityContext::validate_path_access: restricted roots first, then allowed.
validate_path_access(ctx, fs, path) ==
    LET canonical_path == canonicalize_or_literal(fs, path)
    IN  /\ \A r \in ctx.restricted_paths :
              ~ starts_with(canonical_path, canonicalize_or_literal(fs, r))
        /\ \E a \in ctx.allowed_paths :
              starts_with(canonical_path, canonicalize_or_literal(fs, a))

\* SecurityContext::validate_capability
validate_capability(ctx, fs, capability) ==
    IF capability.cap \in {"FileRead", "FileWrite"}
    THEN /\ validate_path_access(ctx, fs, capability.path)
         /\ \E held \in ctx.capabilities :
               /\ held.cap = capability.cap
               /\ starts_with(canonicalize_or_literal(fs, capability.path),
                              canonicalize_or_literal(fs, held.path))
    ELSE capability \in ctx.capabilities

\* SecurityContext::validate_environment_access
validate_environment_access(ctx, variable) ==
    variable \in ctx.environment_allowlist

(***************************************************************************)
(* Filesystem executor (executors/filesystem.rs)                          *)
(***************************************************************************)
\* FileSystemExecutor.max_file_size, in bytes of the model's contents.
max_file_size == 2

FsOperations ==
    {"read", "write", "append", "delete", "create_dir", "list", "exists", "get_info"}
FsReadOps == {"read", "exists", "get_info", "list"}

\* The executor registered by CommunicationHandler::initialize.
FsContext == for_file_operations(TmpDir)

NoContent == <<>>

Response(success, code, category, content) ==
    [success |-> success, code |-> code, category |-> category, content |-> content]

FsOk(content) == Response(TRUE, "OK", "None", content)
\* Err(e) of execute_operation_internal, as FileSystemExecutor::execute reports it
FsFailed == Response(FALSE, "EXECUTION_FAILED", "SystemError", NoContent)
FsSecurity == Response(FALSE, "SECURITY_VIOLATION", "Security", NoContent)
FsInvalid == Response(FALSE, "INVALID_OPERATION", "InvalidInput", NoContent)

\* FileSystemExecutor::validate_operation
validate_operation(ctx, fs, op, path) ==
    /\ validate_path_access(ctx, fs, path)
    /\ IF op \in FsReadOps
       THEN validate_capability(ctx, fs, FileRead(path))
       ELSE validate_capability(ctx, fs, FileWrite(path))

\* The nodes at or below a location.
Below(n) == { m \in Nodes : starts_with(m, n) }

\* A location a file can be created at or opened for writing.
Writable(fs, p) ==
    /\ Walkable(fs, p)
    /\ Normalize(p) \in Nodes
    /\ fs[Normalize(p)].k # "dir"

\* fs::create_dir_all: every missing ancestor becomes a directory.
create_dir_all_ok(fs, p) ==
    /\ Normalize(p) \in Nodes
    /\ \A i \in 0..Len(Normalize(p)) :
          LET a == SubSeq(Normalize(p), 1, i)
          IN  a \in Nodes /\ fs[a].k # "file"

create_dir_all(fs, p) ==
    [ n \in Nodes |->
        IF starts_with(Normalize(p), n) /\ fs[n].k = "absent" THEN DirNode ELSE fs[n] ]

Out(fs, resp) == [fs |-> fs, resp |-> resp]

\* FileSystemExecutor::read_file
read_file(fs, path) ==
    IF ~ PathExists(fs, path) THEN Out(fs, FsFailed)
    ELSE LET node == fs[Normalize(path)]
         IN  IF node.k # "file" THEN Out(fs, FsFailed)
             ELSE IF Len(node.c) > max_file_size THEN Out(fs, FsFailed)
             ELSE Out(fs, FsOk(node.c))

\* FileSystemExecutor::append_file
append_file(fs, path, content) ==
    LET current == IF PathIsFile(fs, path) THEN fs[Normalize(path)].c ELSE <<>>
    IN  IF Len(current) + Len(content) > max_file_size THEN Out(fs, FsFailed)
        ELSE IF ~ Writable(fs, path) THEN Out(fs, FsFailed)
        ELSE Out([fs EXCEPT ![Normalize(path)] = FileNode(current \o content)],
                 FsOk(NoContent))

\* FileSystemExecutor::delete_path
delete_path(fs, path) ==
    IF PathIsDir(fs, path)
    THEN Out([n \in Nodes |-> IF n \in Below(Normalize(path)) THEN Absent ELSE fs[n]],
             FsOk(NoContent))
    ELSE IF PathIsFile(fs, path)
    THEN Out([fs EXCEPT ![Normalize(path)] = Absent], FsOk(NoContent))
    ELSE Out(fs, FsFailed)

\* FileSystemExecutor::create_directory
create_directory(fs, path, recursive) ==
    IF recursive
    THEN (IF Walkable(fs, parent(path)) /\ create_dir_all_ok(fs, path)
          THEN Out(create_dir_all(fs, path), FsOk(NoContent))
          ELSE IF create_dir_all_ok(fs, path) /\ ~ (DotDot \in {path[i] : i \in 1..Len(path)})
          THEN Out(create_dir_all(fs, path), FsOk(NoContent))
          ELSE Out(fs, FsFailed))
    ELSE (IF Walkable(fs, path) /\ Normalize(path) \in Nodes
             /\ fs[Normalize(path)].k = "absent"
          THEN Out([fs EXCEPT ![Normalize(path)] = DirNode], FsOk(NoContent))
          ELSE Out(fs, FsFailed))

\* FileSystemExecutor::list_directory
list_directory(fs, path) ==
    IF PathIsDir(fs, path) THEN Out(fs, FsOk(NoContent)) ELSE Out(fs, FsFailed)

\* FileSystemExecutor::check_exists
check_exists(fs, path) == Out(fs, FsOk(NoContent))

\* FileSystemExecutor::get_file_info
get_file_info(fs, path) ==
    IF PathExists(fs, path) THEN Out(fs, FsOk(NoContent)) ELSE Out(fs, FsFailed)

\* FileSystemExecutor::write_file up to and including fs::write(&temp_path, content)
write_file_temp(fs, path, content) ==
    LET withParents ==
            IF Len(path) > 0 /\ ~ PathExists(fs, parent(path))
                             /\ create_dir_all_ok(fs, parent(path))
            THEN create_dir_all(fs, parent(path)) ELSE fs
        temp_path == with_extension(path, "tmp")
    IN  IF Len(content) > max_file_size THEN Out(fs, FsFailed)
        ELSE IF Len(path) > 0 /\ ~ PathExists(withParents, parent(path))
        THEN Out(fs, FsFailed)
        ELSE IF ~ Writable(withParents, temp_path) THEN Out(withParents, FsFailed)
        ELSE Out([withParents EXCEPT ![Normalize(temp_path)] = FileNode(content)],
                 FsOk(NoContent))

\* FileSystemExecutor::write_file from fs::rename(&temp_path, path) on
write_file_rename(fs, path) ==
    LET temp_path == with_extension(path, "tmp")
        src == Normalize(temp_path)
        dst == Normalize(path)
    IN  IF ~ PathIsFile(fs, temp_path) THEN Out(fs, FsFailed)
        ELSE IF ~ Writable(fs, path) THEN Out(fs, FsFailed)
        ELSE IF src = dst THEN Out(fs, FsOk(NoContent))
        ELSE Out([fs EXCEPT ![dst] = fs[src], ![src] = Absent], FsOk(NoContent))

\* FileSystemExecutor::execute_operation_internal, for the operations that run
\* without an interleaving point
execute_operation_internal(fs, op, path, content, recursive) ==
    CASE op = "read" -> read_file(fs, path)
      [] op = "append" -> append_file(fs, path, content)
      [] op = "delete" -> delete_path(fs, path)
      [] op = "create_dir" -> create_directory(fs, path, recursive)
      [] op = "list" -> list_directory(fs, path)
      [] op = "exists" -> check_exists(fs, path)
      [] op = "get_info" -> get_file_info(fs, path)


\* FileSystemExecutor::parse_operation: the operation name must be a known one.
parse_operation_ok(op) == op \in FsOperations

MaxFsOps == 3
MaxInFlight == 2

\* Contents a request may carry (one of them larger than max_file_size).
ReqContents == { <<1>>, <<2>>, <<1, 1, 1>> }
\* Operations that take the path alone ("chmod" is not an operation).
PathOnlyOps == {"read", "delete", "list", "exists", "get_info", "chmod"}

NotWritten == [set |-> FALSE, c |-> <<>>]
Written(c) == [set |-> TRUE, c |-> c]

NoRequest ==
    [op |-> "none", path |-> <<>>, resp |-> FsOk(NoContent), changed |-> FALSE]

FsInitial ==
    [ n \in Nodes |->
        IF n \in {<<>>, TmpDir, EtcDir, HomeDir} THEN DirNode
        ELSE IF n = EtcDir \o <<F("passwd", "")>> THEN FileNode(<<1>>)
        ELSE Absent ]

FsInit ==
    /\ fsys = FsInitial
    /\ fs_tmp = {}
    /\ fs_last = NoRequest
    /\ fs_ops = 0
    /\ fs_written = [p \in ReqPaths |-> NotWritten]

\* FileSystemExecutor::execute for every operation but write
FsExecute(op, path, content, recursive) ==
    /\ fs_ops < MaxFsOps
    /\ \E out \in { IF ~ parse_operation_ok(op) THEN Out(fsys, FsInvalid)
                    ELSE IF ~ validate_operation(FsContext, fsys, op, path)
                    THEN Out(fsys, FsSecurity)
                    ELSE execute_operation_internal(fsys, op, path, content, recursive) } :
           /\ fsys' = out.fs
           /\ fs_last' = [op |-> op, path |-> path,
                          resp |-> out.resp, changed |-> out.fs # fsys]
    /\ fs_ops' = fs_ops + 1
    /\ fs_written' = IF op \in {"append", "delete", "create_dir"}
                     THEN [p \in ReqPaths |-> NotWritten] ELSE fs_written
    /\ fs_tmp' = IF op \in {"append", "delete", "create_dir"}
                 THEN { [t EXCEPT !.alone = FALSE] : t \in fs_tmp } ELSE fs_tmp
    /\ UNCHANGED <<cmdVars, prVars, streamVars>>

\* FileSystemExecutor::execute for write, up to the await between fs::write of
\* the temporary file and fs::rename
FsWriteBegin(path, content) ==
    /\ fs_ops < MaxFsOps
    /\ Cardinality(fs_tmp) < MaxInFlight
    /\ \E out \in { IF validate_operation(FsContext, fsys, "write", path)
                    THEN write_file_temp(fsys, path, content)
                    ELSE Out(fsys, FsSecurity) } :
           /\ fsys' = out.fs
           /\ IF out.resp.success
              THEN /\ fs_tmp' = fs_tmp \cup
                        {[id |-> fs_ops + 1, path |-> path, content |-> content,
                          dirty |-> out.fs # fsys, alone |-> TRUE]}
                   /\ UNCHANGED fs_last
              ELSE /\ fs_last' = [op |-> "write", path |-> path,
                                  resp |-> out.resp, changed |-> out.fs # fsys]
                   /\ UNCHANGED fs_tmp
    /\ fs_ops' = fs_ops + 1
    /\ fs_written' = [fs_written EXCEPT ![path] = NotWritten]
    /\ UNCHANGED <<cmdVars, prVars, streamVars>>

\* The rest of write_file: fs::rename and the response
FsWriteFinish(t) ==
    /\ t \in fs_tmp
    /\ \E out \in { write_file_rename(fsys, t.path) } :
           /\ fsys' = out.fs
           /\ fs_last' = [op |-> "write", path |-> t.path,
                          resp |-> out.resp, changed |-> t.dirty \/ out.fs # fsys]
           /\ fs_written' =
                 [fs_written EXCEPT ![t.path] =
                     IF out.resp.success /\ t.alone
                        /\ ~ \E u \in fs_tmp \ {t} : u.path = t.path
                     THEN Written(t.content) ELSE NotWritten]
    /\ fs_tmp' = fs_tmp \ {t}
    /\ UNCHANGED <<fs_ops, cmdVars, prVars, streamVars>>

FsNext ==
    \/ \E op \in PathOnlyOps, path \in ReqPaths : FsExecute(op, path, <<>>, FALSE)
    \/ \E path \in ReqPaths, content \in ReqContents :
          FsExecute("append", path, content, FALSE)
    \/ \E path \in ReqPaths, r \in BOOLEAN : FsExecute("create_dir", path, <<>>, r)
    \/ \E path \in ReqPaths, content \in ReqContents : FsWriteBegin(path, content)
    \/ \E t \in fs_tmp : FsWriteFinish(t)



(***************************************************************************)
(* Command executor (executors/command.rs, security/isolation.rs)         *)
(* Strings that are searched for substrings are sequences of characters.  *)
(***************************************************************************)
\* str::contains
Contains(s, pat) ==
    \E i \in 0..(Len(s) - Len(pat)) : SubSeq(s, i + 1, i + Len(pat)) = pat

\* [String]::join(" ")
RECURSIVE Join(_)
Join(args) ==
    IF Len(args) = 0 THEN <<>>
    ELSE IF Len(args) = 1 THEN args[1]
    ELSE args[1] \o <<" ">> \o Join(Tail(args))

DEFAULT_ALLOWED_COMMANDS ==
    { "ls", "dir", "cat", "head", "tail", "find", "grep", "wc", "sort", "uniq",
      "git", "npm", "node", "python", "python3", "pip", "pip3", "rustc", "cargo",
      "echo", "pwd", "which", "whereis", "uname", "whoami",
      "sed", "awk", "cut", "tr", "jq",
      "tar", "zip", "unzip", "gzip", "gunzip" }

ALLOWED_ENV_VARS ==
    { "PATH", "HOME", "USER", "SHELL", "TERM", "LANG", "LC_ALL", "NODE_ENV",
      "PYTHON_PATH", "CARGO_HOME", "RUSTUP_HOME", "HTTP_PROXY", "HTTPS_PROXY",
      "NO_PROXY" }

BLOCKED_PATTERNS ==
    { <<"r","m"," ","-","r","f">>, <<"r","m"," ","*">>,
      <<">"," ","/","d","e","v","/">>,
      <<"c","u","r","l"," ","|"," ","s","h">>, <<"w","g","e","t"," ","|"," ","s","h">>,
      <<"c","h","m","o","d"," ","7","7","7">>,
      <<"c","h","o","w","n"," ","r","o","o","t">>,
      <<"s","u","d","o">>, <<"s","u"," ">>, <<"p","a","s","s","w","d">>,
      <<"u","s","e","r","a","d","d">>, <<"u","s","e","r","d","e","l">>,
      <<"u","s","e","r","m","o","d">> }

\* The characters of the command names of the model; "" has none.
Chars(name) ==
    CASE name = "ls" -> <<"l","s">>
      [] name = "dir" -> <<"d","i","r">>
      [] name = "cat" -> <<"c","a","t">>
      [] name = "head" -> <<"h","e","a","d">>
      [] name = "tail" -> <<"t","a","i","l">>
      [] name = "find" -> <<"f","i","n","d">>
      [] name = "grep" -> <<"g","r","e","p">>
      [] name = "wc" -> <<"w","c">>
      [] name = "sort" -> <<"s","o","r","t">>
      [] name = "uniq" -> <<"u","n","i","q">>
      [] name = "git" -> <<"g","i","t">>
      [] name = "npm" -> <<"n","p","m">>
      [] name = "node" -> <<"n","o","d","e">>
      [] name = "python" -> <<"p","y","t","h","o","n">>
      [] name = "python3" -> <<"p","y","t","h","o","n","3">>
      [] name = "pip" -> <<"p","i","p">>
      [] name = "pip3" -> <<"p","i","p","3">>
      [] name = "rustc" -> <<"r","u","s","t","c">>
      [] name = "cargo" -> <<"c","a","r","g","o">>
      [] name = "echo" -> <<"e","c","h","o">>
      [] name = "pwd" -> <<"p","w","d">>
      [] name = "which" -> <<"w","h","i","c","h">>
      [] name = "whereis" -> <<"w","h","e","r","e","i","s">>
      [] name = "uname" -> <<"u","n","a","m","e">>
      [] name = "whoami" -> <<"w","h","o","a","m","i">>
      [] name = "sed" -> <<"s","e","d">>
      [] name = "awk" -> <<"a","w","k">>
      [] name = "cut" -> <<"c","u","t">>
      [] name = "tr" -> <<"t","r">>
      [] name = "jq" -> <<"j","q">>
      [] name = "tar" -> <<"t","a","r">>
      [] name = "zip" -> <<"z","i","p">>
      [] name = "unzip" -> <<"u","n","z","i","p">>
      [] name = "gzip" -> <<"g","z","i","p">>
      [] name = "gunzip" -> <<"g","u","n","z","i","p">>
      [] name = "rm" -> <<"r","m">>
      [] name = "foo" -> <<"f","o","o">>
      [] name = "test_command" -> <<"t","e","s","t","_","c","o","m","m","a","n","d">>
      [] name = "bad cmd" -> <<"b","a","d"," ","c","m","d">>
      [] name = "/bin/sh" -> <<"/","b","i","n","/","s","h">>
      [] name = "ls;id" -> <<"l","s",";","i","d">>
      [] OTHER -> <<>>

S_exec == <<"-","-","e","x","e","c">>
S_upload_pack == <<"-","-","u","p","l","o","a","d","-","p","a","c","k">>
S_run_script == <<"r","u","n","-","s","c","r","i","p","t">>
S_allow_run == <<"-","-","a","l","l","o","w","-","r","u","n">>
S_c == <<"-","c">>
S_py_exec == <<"e","x","e","c">>
S_py_eval == <<"e","v","a","l">>
S_find_exec == <<"-","e","x","e","c">>
S_find_execdir == <<"-","e","x","e","c","d","i","r">>

NoDir == <<DotDot>>

\* The file named by COMMAND_ALLOWLIST_FILE: whether the variable is set and
\* the file reads as a JSON array of strings, and the strings.
AllowlistFile(readable, list) == [readable |-> readable, list |-> list]
NoAllowlistFile == AllowlistFile(FALSE, {})

\* CommandExecutor::load_whitelist_from_file
load_whitelist_from_file(file) == file.list

\* CommandExecutor::load_command_whitelist, for a context built by the
\* constructors of SecurityContext, which name no command
load_command_whitelist(file) ==
    IF file.readable THEN load_whitelist_from_file(file)
    ELSE DEFAULT_ALLOWED_COMMANDS

SHELL_METACHARS ==
    { ";", "&", "|", "$", ">", "<", "`", "!", "*", "?", "~", "(", ")", "{", "}",
      "[", "]", "'", "\"" }

\* CommandExecutor::validate_command_name
validate_command_name(command) ==
    LET cs == Chars(command)
    IN  /\ \E i \in 1..Len(cs) : cs[i] # " "
        /\ \A i \in 1..Len(cs) : cs[i] \notin {" ", "/", "\\"} \cup SHELL_METACHARS
        /\ \A pattern \in BLOCKED_PATTERNS : ~ Contains(cs, pattern)

\* CommandExecutor::validate_command_arguments
validate_command_arguments(command, args) ==
    LET any(P(_)) == \E i \in 1..Len(args) : P(args[i])
        git(a) == Contains(a, S_exec) \/ Contains(a, S_upload_pack)
        npm(a) == a = S_run_script \/ Contains(a, S_allow_run)
        py(a) == a = S_c \/ Contains(a, S_py_exec) \/ Contains(a, S_py_eval)
        fnd(a) == a = S_find_exec \/ a = S_find_execdir
    IN  CASE command = "git" -> ~ any(git)
          [] command \in {"npm", "node"} -> ~ any(npm)
          [] command \in {"python", "python3"} -> ~ any(py)
          [] command = "find" -> ~ any(fnd)
          [] OTHER -> TRUE

\* validate_command_security without the per-command argument check.
validate_command_security_no_arguments(ctx, whitelist, fs, request) ==
    LET full_command == Chars(request.command) \o <<" ">> \o Join(request.args)
    IN  IF request.command \notin whitelist THEN "CommandNotAllowed"
        ELSE IF \E pattern \in BLOCKED_PATTERNS : Contains(full_command, pattern)
        THEN "BlockedPattern"
        ELSE IF request.working_directory # NoDir
                /\ ~ validate_path_access(ctx, fs, request.working_directory)
        THEN "WorkingDirectoryNotAllowed"
        ELSE IF \E key \in request.environment : key \notin ALLOWED_ENV_VARS
        THEN "EnvironmentVariableNotAllowed"
        ELSE IF ~ validate_capability(ctx, fs, ProcessSpawn) THEN "CapabilityDenied"
        ELSE "ok"

\* CommandExecutor::validate_command_security: the checks in the order of the
\* code; the result is "ok" or the name of the first check that failed.
validate_command_security(ctx, whitelist, fs, request) ==
    LET full_command == Chars(request.command) \o <<" ">> \o Join(request.args)
    IN  IF request.command \notin whitelist THEN "CommandNotAllowed"
        ELSE IF \E pattern \in BLOCKED_PATTERNS : Contains(full_command, pattern)
        THEN "BlockedPattern"
        ELSE IF request.working_directory # NoDir
                /\ ~ validate_path_access(ctx, fs, request.working_directory)
        THEN "WorkingDirectoryNotAllowed"
        ELSE IF \E key \in request.environment : key \notin ALLOWED_ENV_VARS
        THEN "EnvironmentVariableNotAllowed"
        ELSE IF ~ validate_capability(ctx, fs, ProcessSpawn) THEN "CapabilityDenied"
        ELSE IF ~ validate_command_arguments(request.command, request.args)
        THEN "ArgumentNotAllowed"
        ELSE "ok"

\* ProcessIsolation::execute_command up to cmd.spawn(): its own checks
isolation_checks(ctx, fs, request) ==
    /\ validate_capability(ctx, fs, ProcessSpawn)
    /\ request.working_directory # NoDir
          => validate_path_access(ctx, fs, request.working_directory)

CmdInvalid == Response(FALSE, "INVALID_COMMAND_REQUEST", "InvalidInput", NoContent)
CmdSecurity == Response(FALSE, "SECURITY_VIOLATION", "Security", NoContent)
CmdFailed == Response(FALSE, "EXECUTION_FAILED", "SystemError", NoContent)
\* Ok(command_result): success is exit_code == Some(0), no error object
CmdDone(exit_ok) == Response(exit_ok, "OK", "None", NoContent)

\* The limits setrlimit can put on a child (security/isolation.rs)
ResourceLimitKinds == {"RLIMIT_AS", "RLIMIT_CPU", "RLIMIT_NOFILE", "RLIMIT_NPROC"}
\* A child process: running, exited but not waited for (zombie), or reaped;
\* the limits set in it before exec; the signals the executor sent it.
Child(state, limits, signals) == [state |-> state, limits |-> limits, signals |-> signals]
NoChild == Child("none", {}, {})
\* ProcessIsolation::execute_command builds the Command (args, current_dir,
\* stdio, env_clear and the allowlisted variables) and spawns it: no pre_exec
\* hook, no kill_on_drop.
spawn_child == Child("running", {}, {})
\* child.wait_with_output() returning: the child has exited and been waited for.
wait_with_output(child) == [child EXCEPT !.state = "reaped"]
\* The timeout elapsing drops the wait_with_output future and the Child in it.
\* A tokio Child dropped without kill_on_drop is left running.
child_after_timeout(child) == child
\* ProcessIsolation::terminate_child: SIGTERM, 100 ms, SIGKILL if still alive, waitpid.
\* Its callers are the arms of wait_for_child_with_timeout (the fork path of
\* execute_isolated); execute_command does not call it.
terminate_child(child, exits_on_term) ==
    IF exits_on_term
    THEN [child EXCEPT !.state = "reaped", !.signals = @ \cup {"SIGTERM"}]
    ELSE [child EXCEPT !.state = "reaped", !.signals = @ \cup {"SIGTERM", "SIGKILL"}]
\* What the operating system makes of a spawn.
SpawnOutcomes == {"spawn_failed", "exit_zero", "exit_nonzero", "timeout"}

\* CommandExecutor.max_output_size, in the model's unit of output length
max_output_size == 2
\* The lengths of what a child writes to its standard output.
OutputLens == {0, max_output_size, max_output_size + 1}

\* A captured output: the bytes of the child's output it holds and whether it
\* ends in "... (truncated at N bytes)".
Output(bytes, marker) == [bytes |-> bytes, marker |-> marker]
NoOutput == Output(0, FALSE)

\* execute_command_internal: stdout_truncated, stderr_truncated
truncated(len) ==
    IF len > max_output_size THEN Output(max_output_size, TRUE) ELSE Output(len, FALSE)

\* CommandExecutor::execute: the stdout of the CommandResult built from the
\* result of ProcessIsolation::execute_command
captured(capture_output, len) ==
    IF capture_output THEN Output(len, FALSE) ELSE NoOutput

\* ProcessIsolation::execute_command from cmd.spawn() on, as
\* CommandExecutor::execute reports it: written is the length of the
\* output that wait_with_output collected
spawn_result(outcome, capture_output, len) ==
    CASE outcome = "spawn_failed" ->
           [resp |-> CmdFailed, spawned |-> FALSE, outcome |-> outcome, child |-> NoChild,
            written |-> 0, stdout |-> NoOutput]
      [] outcome = "timeout" ->
           [resp |-> CmdFailed, spawned |-> TRUE, outcome |-> outcome,
            child |-> child_after_timeout(spawn_child),
            written |-> 0, stdout |-> NoOutput]
      [] outcome = "exit_zero" ->
           [resp |-> CmdDone(TRUE), spawned |-> TRUE, outcome |-> outcome,
            child |-> wait_with_output(spawn_child),
            written |-> len, stdout |-> captured(capture_output, len)]
      [] outcome = "exit_nonzero" ->
           [resp |-> CmdDone(FALSE), spawned |-> TRUE, outcome |-> outcome,
            child |-> wait_with_output(spawn_child),
            written |-> len, stdout |-> captured(capture_output, len)]

\* A response given before ProcessIsolation::execute_command reaches cmd.spawn()
NotSpawned(resp) ==
    [resp |-> resp, spawned |-> FALSE, outcome |-> "none", child |-> NoChild,
     written |-> 0, stdout |-> NoOutput]

\* CommandExecutor::execute: the responses it can give to a request, each with
\* whether a child process was spawned.
command_execute(ctx, whitelist, fs, request) ==
    IF ~ request.has_command THEN {NotSpawned(CmdInvalid)}
    ELSE IF validate_command_security(ctx, whitelist, fs, request) # "ok"
    THEN {NotSpawned(CmdSecurity)}
    ELSE IF ~ isolation_checks(ctx, fs, request)
    THEN {NotSpawned(CmdFailed)}
    ELSE { spawn_result(outcome, request.capture_output, len) :
              outcome \in SpawnOutcomes, len \in OutputLens }

MaxCmdOps == 2

CmdNames == {"ls", "rm", "git", "node", "python", "find", "cat"}
CmdArgLists ==
    { <<>>,
      << <<"-","r","f">>, <<"/">> >>,
      << <<"-","-","e","x","e","c","=","x">> >>,
      << <<"-","c">> >>,
      << <<"-","e","x","e","c">> >>,
      << <<"r","u","n","-","s","c","r","i","p","t">> >>,
      << <<"p","s","e","u","d","o">>, <<"x">> >> }
\* Working directory and environment keys of a request.
CmdPlaces ==
    { <<NoDir, {}>>, <<TmpDir, {"PATH"}>>, <<EtcDir, {}>>, <<TmpDir, {"LD_PRELOAD"}>>,
      <<HomeDir, {"PATH", "LD_PRELOAD"}>> }

CommandRequest(has, command, args, wd, env) ==
    [has_command |-> has, command |-> command, args |-> args,
     working_directory |-> wd, environment |-> env, capture_output |-> TRUE]

NoCommand ==
    [req |-> CommandRequest(FALSE, "ls", <<>>, NoDir, {}), resp |-> CmdInvalid,
     spawned |-> FALSE, outcome |-> "none", child |-> NoChild, written |-> 0,
     stdout |-> NoOutput, seen |-> FALSE]

CmdInit ==
    /\ cmd_ctx = for_command_execution
    /\ cmd_whitelist = load_command_whitelist(NoAllowlistFile)
    /\ cmd_last = NoCommand
    /\ cmd_spawned = 0
    /\ cmd_ops = 0

\* CommandExecutor::new(security_context), with the file that
\* COMMAND_ALLOWLIST_FILE names at that moment
CmdNew(ctx, file) ==
    /\ cmd_ctx' = ctx
    /\ cmd_whitelist' = load_command_whitelist(file)
    /\ cmd_last' = NoCommand
    /\ UNCHANGED <<cmd_spawned, cmd_ops, fsVars, prVars, streamVars>>

\* CommandExecutor::execute
CmdExecute(request) ==
    /\ cmd_ops < MaxCmdOps
    /\ \E out \in command_execute(cmd_ctx, cmd_whitelist, fsys, request) :
          /\ cmd_last' = [req |-> request, resp |-> out.resp,
                          spawned |-> out.spawned, outcome |-> out.outcome,
                          child |-> out.child, written |-> out.written,
                          stdout |-> out.stdout, seen |-> TRUE]
          /\ cmd_spawned' = cmd_spawned + (IF out.spawned THEN 1 ELSE 0)
    /\ cmd_ops' = cmd_ops + 1
    /\ UNCHANGED <<cmd_ctx, cmd_whitelist, fsVars, prVars, streamVars>>

\* CommandExecutor::add_allowed_command
CmdAddAllowed(command) ==
    /\ validate_command_name(command)
    /\ cmd_whitelist' = cmd_whitelist \cup {command}
    /\ UNCHANGED <<cmd_ctx, cmd_last, cmd_spawned, cmd_ops, fsVars, prVars, streamVars>>

\* CommandExecutor::remove_allowed_command
CmdRemoveAllowed(command) ==
    /\ cmd_whitelist' = cmd_whitelist \ {command}
    /\ UNCHANGED <<cmd_ctx, cmd_last, cmd_spawned, cmd_ops, fsVars, prVars, streamVars>>

\* CommandExecutor::set_command_whitelist
CmdSetWhitelist(commands) ==
    /\ \A command \in commands : validate_command_name(command)
    /\ cmd_whitelist' = commands
    /\ UNCHANGED <<cmd_ctx, cmd_last, cmd_spawned, cmd_ops, fsVars, prVars, streamVars>>

\* Names, lists and files of the whitelist scenarios.
WhitelistNames == {"test_command", "bad cmd", "ls", "ls;id", "/bin/sh", ""}
WhitelistLists == { {}, {"ls", "cat"}, {"ls", "bad cmd"} }
WhitelistFiles ==
    { NoAllowlistFile, AllowlistFile(TRUE, {"foo"}), AllowlistFile(TRUE, {"ls", "/bin/sh"}),
      AllowlistFile(TRUE, {"bad cmd", ""}) }

WhitelistNext ==
    \/ \E file \in WhitelistFiles : CmdNew(for_command_execution, file)
    \/ \E command \in WhitelistNames : CmdAddAllowed(command)
    \/ \E command \in WhitelistNames : CmdRemoveAllowed(command)
    \/ \E commands \in WhitelistLists : CmdSetWhitelist(commands)
    \/ \E command \in {"ls", "foo"} :
          CmdExecute(CommandRequest(TRUE, command, <<>>, NoDir, {}))

CmdNext ==
    \/ \E ctx \in {for_command_execution, SecurityContext_new} :
          CmdNew(ctx, NoAllowlistFile)
    \/ \E c \in CmdNames, a \in CmdArgLists, p \in CmdPlaces :
          CmdExecute(CommandRequest(TRUE, c, a, p[1], p[2]))
    \/ CmdExecute(CommandRequest(FALSE, "ls", <<>>, NoDir, {}))
    \/ CmdExecute([CommandRequest(TRUE, "ls", <<>>, NoDir, {}) EXCEPT
                      !.capture_output = FALSE])

(***************************************************************************)
(* NDJSON protocol handler (protocol/communication.rs)                    *)
(***************************************************************************)
\* FileSystemExecutor::write_file as one step
write_file(fs, path, content) ==
    LET staged == write_file_temp(fs, path, content)
    IN  IF staged.resp.success THEN write_file_rename(staged.fs, path) ELSE staged

\* FileSystemExecutor::execute on the arguments map of a request:
\* parse_operation reads arguments["operation"] and arguments["path"].
filesystem_execute(ctx, fs, arguments) ==
    IF ~ parse_operation_ok(arguments.operation) \/ ~ arguments.has_path
    THEN Out(fs, FsInvalid)
    ELSE IF ~ validate_operation(ctx, fs, arguments.operation, arguments.path)
    THEN Out(fs, FsSecurity)
    ELSE IF arguments.operation = "write"
    THEN write_file(fs, arguments.path, arguments.content)
    ELSE execute_operation_internal(fs, arguments.operation, arguments.path,
                                    arguments.content, FALSE)

\* CommunicationHandler.max_message_size, in the model's unit of line length
max_message_size == 3
\* CommunicationHandler.max_messages_per_minute
max_messages_per_minute == 2
RateWindowSecs == 60
SessionExpirySecs == 3600

SessionIds == {"default", "s1", "ro"}
NoSession == "none"

\* A context that holds FileRead on the temp directory and nothing else.
ReadOnlyContext == [SecurityContext_new EXCEPT !.capabilities = {FileRead(TmpDir)}]

\* ExecutorRegistry::new
EmptyRegistry ==
    [filesystem_executor |-> FALSE, command_executor |-> FALSE, security_contexts |-> {}]
\* The registry after CommunicationHandler::initialize and the host's
\* register_security_context("ro", ReadOnlyContext).
InitializedRegistry ==
    [filesystem_executor |-> TRUE, command_executor |-> TRUE,
     security_contexts |-> {"default", "ro"}]

\* ExecutorRegistry.security_contexts.get(session_id), or
\* SecurityContext::default() for a session without an entry.
registry_security_contexts(registry, session_id) ==
    IF session_id \notin registry.security_contexts THEN SecurityContext_new
    ELSE IF session_id = "default" THEN for_file_operations(TmpDir)
    ELSE IF session_id = "ro" THEN ReadOnlyContext
    ELSE SecurityContext_new

NoSessionState ==
    [live |-> FALSE, last_activity |-> 0, message_count |-> 0,
     security_context |-> SecurityContext_new, message_timestamps |-> <<>>]

\* The messages the handler sends.
Message(type, payload, success, code, category, content) ==
    [type |-> type, payload |-> payload, success |-> success, code |-> code,
     category |-> category, content |-> content]

\* ExecutionMessage::error
ErrorMessage(code) == Message("Error", "Error", FALSE, code, "None", NoContent)
\* ExecutionMessage::response
ResponseMessage(resp) ==
    Message("Response", "ExecutionResponse", resp.success, resp.code, resp.category,
            resp.content)
NoMessage == Message("None", "None", FALSE, "None", "None", NoContent)

\* while front is older than the window: pop_front
RECURSIVE clean_old_timestamps(_, _)
clean_old_timestamps(timestamps, now) ==
    IF Len(timestamps) > 0 /\ now - Head(timestamps) > RateWindowSecs
    THEN clean_old_timestamps(Tail(timestamps), now)
    ELSE timestamps

\* check_rate_limit admitting a line when the window already holds the maximum.
check_rate_limit_off_by_one(registry, sessions, session_id, now) ==
    LET session == IF sessions[session_id].live THEN sessions[session_id]
                   ELSE [NoSessionState EXCEPT
                           !.live = TRUE, !.last_activity = now,
                           !.security_context =
                               registry_security_contexts(registry, session_id)]
        kept == clean_old_timestamps(session.message_timestamps, now)
        pass == Len(kept) <= max_messages_per_minute
    IN  [ sessions |-> [sessions EXCEPT ![session_id] =
                          [session EXCEPT
                             !.last_activity = now,
                             !.message_timestamps =
                                 IF pass THEN Append(kept, now) ELSE kept]],
          pass |-> pass ]

\* CommunicationHandler::check_rate_limit
check_rate_limit(registry, sessions, session_id, now) ==
    LET session == IF sessions[session_id].live THEN sessions[session_id]
                   ELSE [NoSessionState EXCEPT
                           !.live = TRUE, !.last_activity = now,
                           !.security_context =
                               registry_security_contexts(registry, session_id)]
        kept == clean_old_timestamps(session.message_timestamps, now)
        pass == Len(kept) < max_messages_per_minute
    IN  [ sessions |-> [sessions EXCEPT ![session_id] =
                          [session EXCEPT
                             !.last_activity = now,
                             !.message_timestamps =
                                 IF pass THEN Append(kept, now) ELSE kept]],
          pass |-> pass ]

\* CommunicationHandler::update_session_state
update_session_state(sessions, message, now) ==
    IF message.session = NoSession THEN sessions
    ELSE IF sessions[message.session].live
    THEN [sessions EXCEPT ![message.session].last_activity = now,
                          ![message.session].message_count = @ + 1]
    ELSE [sessions EXCEPT ![message.session] =
             [NoSessionState EXCEPT !.live = TRUE, !.last_activity = now,
                                    !.message_count = 1]]

\* CommunicationHandler::validate_request_security
validate_request_security(sessions, session_id, request, now, fs) ==
    LET session == sessions[session_id]
        ctx == session.security_context
    IN  /\ session.live
        /\ now - session.last_activity < SessionExpirySecs
        /\ \A var \in request.environment : validate_environment_access(ctx, var)
        /\ CASE request.tool_id = "filesystem" ->
                  (request.arguments.has_path =>
                      validate_capability(ctx, fs,
                          IF request.operation = "read"
                          THEN FileRead(request.arguments.path)
                          ELSE FileWrite(request.arguments.path)))
             [] request.tool_id = "command" -> validate_capability(ctx, fs, ProcessSpawn)
             [] OTHER -> TRUE

ExecutorUnknownTool == Response(FALSE, "UNKNOWN_TOOL", "InvalidInput", NoContent)
ExecutorNotAvailable == Response(FALSE, "EXECUTOR_NOT_AVAILABLE", "SystemError", NoContent)
RequestSecurityViolation == Response(FALSE, "SECURITY_VIOLATION", "Security", NoContent)

\* The arguments map of a request: arguments["operation"], arguments["path"],
\* arguments["content"].
Arguments(operation, has_path, path, content) ==
    [operation |-> operation, has_path |-> has_path, path |-> path, content |-> content]

ExecutionRequest(tool_id, operation, arguments, environment) ==
    [tool_id |-> tool_id, operation |-> operation, arguments |-> arguments,
     environment |-> environment]

NoRequestBody == ExecutionRequest("none", "none", Arguments("none", FALSE, <<>>, <<>>), {})

\* An input line: its length, whether it is a JSON object with id, type and
\* payload, whether it deserializes to an ExecutionMessage, and the message.
Line(size, schema_ok, parses, session, payload, request) ==
    [size |-> size, schema_ok |-> schema_ok, parses |-> parses, session |-> session,
     payload |-> payload, request |-> request]

MessageLine(session, payload, request) == Line(1, TRUE, TRUE, session, payload, request)
NoLine == Line(0, FALSE, FALSE, NoSession, "none", NoRequestBody)

\* The command request carried by the arguments of a protocol request.
ProtocolCommand == CommandRequest(TRUE, "ls", <<>>, NoDir, {})

\* ExecutorRegistry::execute_request: the responses it can give, each with the
\* file system it leaves and whether a child process was spawned.
registry_execute_request(registry, fs, request, ctx, whitelist) ==
    CASE request.tool_id = "filesystem" ->
            IF registry.filesystem_executor
            THEN { [out |-> filesystem_execute(FsContext, fs, request.arguments),
                    spawned |-> FALSE] }
            ELSE { [out |-> Out(fs, ExecutorNotAvailable), spawned |-> FALSE] }
      [] request.tool_id = "command" ->
            IF registry.command_executor
            THEN { [out |-> Out(fs, r.resp), spawned |-> r.spawned] :
                      r \in command_execute(ctx, whitelist, fs, ProtocolCommand) }
            ELSE { [out |-> Out(fs, ExecutorNotAvailable), spawned |-> FALSE] }
      [] OTHER -> { [out |-> Out(fs, ExecutorUnknownTool), spawned |-> FALSE] }

\* ExecutionMessage::health_check: the overall status, and the status of the
\* check "filesystem_executor" in the place of the category.
HealthCheckMessage(status, filesystem_check) ==
    Message("HealthCheck", "HealthCheck", TRUE, status, filesystem_check, NoContent)

\* CommunicationHandler::handle_health_check
handle_health_check(registry) ==
    LET overall_status == "Healthy"
        fs_available == registry.filesystem_executor
    IN  HealthCheckMessage(overall_status,
                           IF fs_available THEN "Healthy" ELSE "Unhealthy")

\* CommunicationHandler::handle_execution_request
handle_execution_request(registry, sessions, message, now, fs, ctx, whitelist) ==
    LET session_id == IF message.session = NoSession THEN "default" ELSE message.session
    IN  IF ~ validate_request_security(sessions, session_id, message.request, now, fs)
        THEN { [out |-> Out(fs, RequestSecurityViolation), spawned |-> FALSE] }
        ELSE registry_execute_request(registry, fs, message.request, ctx, whitelist)

\* CommunicationHandler::parse_and_process_message after update_session_state:
\* the messages it can return, each with the file system it leaves.
process_message(registry, sessions, message, now, fs, ctx, whitelist) ==
    CASE message.payload = "ExecutionRequest" ->
            { [fs |-> r.out.fs, msg |-> ResponseMessage(r.out.resp), spawned |-> r.spawned] :
                 r \in handle_execution_request(registry, sessions, message, now, fs, ctx,
                                                whitelist) }
      [] message.payload = "Heartbeat" ->
            { [fs |-> fs, spawned |-> FALSE,
               msg |-> Message("Heartbeat", "Heartbeat", TRUE, "None", "None", NoContent)] }
      [] message.payload = "HealthCheck" ->
            { [fs |-> fs, spawned |-> FALSE, msg |-> handle_health_check(registry)] }
      [] message.payload = "Shutdown" ->
            { [fs |-> fs, spawned |-> FALSE,
               msg |-> Message("Response", "Shutdown", TRUE, "None", "None", NoContent)] }
      [] OTHER ->
            { [fs |-> fs, spawned |-> FALSE, msg |-> ErrorMessage("MESSAGE_PROCESSING_ERROR")] }

\* The positions of run_communication_loop and of the two tasks it spawns;
\* before the call the handler is driven through process_input_stream with
\* a channel of the caller.
LoopIdle == [loop |-> "idle", input |-> "none", output |-> "none"]

\* tx.send(message): the message joins the channel of the loop, if there is one
send(queue, pc, msg) == IF pc.loop = "idle" THEN queue ELSE Append(queue, msg)

HistLen == 2
\* The last HistLen answered lines.
Remember(hist, line, msg) ==
    LET all == Append(hist, [line |-> line, msg |-> msg])
    IN  IF Len(all) > HistLen THEN Tail(all) ELSE all

PrInit ==
    /\ pr_clock = 0
    /\ pr_sessions = [sid \in SessionIds |-> NoSessionState]
    /\ pr_pending = NoLine
    /\ pr_hist = <<>>
    /\ pr_lines = 0
    /\ pr_passed = [sid \in SessionIds |-> <<>>]
    /\ pr_registry = InitializedRegistry
    /\ pr_cleaned = FALSE
    /\ lp_pc = LoopIdle
    /\ lp_queue = <<>>
    /\ lp_written = <<>>

\* process_input_stream, one line: size check, validate_message_schema and
\* check_rate_limit
PrReadLine(line) ==
    /\ pr_pending = NoLine
    /\ lp_pc.input # "done"
    /\ pr_lines' = pr_lines + 1
    /\ IF line.size > max_message_size
       THEN /\ pr_hist' = Remember(pr_hist, line, NoMessage)
            /\ UNCHANGED <<pr_sessions, pr_pending, pr_passed, lp_queue>>
       ELSE IF ~ line.schema_ok
       THEN /\ pr_hist' = Remember(pr_hist, line, ErrorMessage("INVALID_MESSAGE_SCHEMA"))
            /\ lp_queue' = send(lp_queue, lp_pc, ErrorMessage("INVALID_MESSAGE_SCHEMA"))
            /\ UNCHANGED <<pr_sessions, pr_pending, pr_passed>>
       ELSE LET session_id == IF line.session = NoSession THEN "default" ELSE line.session
            IN  \E limited \in { check_rate_limit(pr_registry, pr_sessions, session_id,
                                                    pr_clock) } :
                   /\ pr_sessions' = limited.sessions
                   /\ IF limited.pass
                      THEN /\ pr_pending' = line
                           /\ pr_passed' = [pr_passed EXCEPT ![session_id] =
                                               Append(@, pr_clock)]
                           /\ UNCHANGED <<pr_hist, lp_queue>>
                      ELSE /\ pr_hist' = Remember(pr_hist, line,
                                                  ErrorMessage("RATE_LIMIT_EXCEEDED"))
                           /\ lp_queue' = send(lp_queue, lp_pc,
                                               ErrorMessage("RATE_LIMIT_EXCEEDED"))
                           /\ UNCHANGED <<pr_pending, pr_passed>>
    /\ pr_cleaned' = FALSE
    /\ UNCHANGED <<pr_clock, pr_registry, lp_pc, lp_written, fsVars, cmdVars, streamVars>>

\* process_input_stream, the rest of the line: parse_and_process_message and
\* the message sent for it
PrProcess ==
    /\ pr_pending # NoLine
    /\ pr_pending' = NoLine
    /\ IF ~ pr_pending.parses
       THEN /\ pr_hist' = Remember(pr_hist, pr_pending,
                                   ErrorMessage("MESSAGE_PROCESSING_ERROR"))
            /\ lp_queue' = send(lp_queue, lp_pc, ErrorMessage("MESSAGE_PROCESSING_ERROR"))
            /\ UNCHANGED <<pr_sessions, fsys, cmd_spawned>>
       ELSE \E updated \in { update_session_state(pr_sessions, pr_pending, pr_clock) } :
               /\ pr_sessions' = updated
               /\ \E r \in process_message(pr_registry, updated, pr_pending, pr_clock,
                                           fsys, cmd_ctx, cmd_whitelist) :
                     /\ fsys' = r.fs
                     /\ cmd_spawned' = cmd_spawned + (IF r.spawned THEN 1 ELSE 0)
                     /\ pr_hist' = Remember(pr_hist, pr_pending, r.msg)
                     /\ lp_queue' = send(lp_queue, lp_pc, r.msg)
    /\ pr_cleaned' = FALSE
    /\ UNCHANGED <<pr_clock, pr_lines, pr_passed, pr_registry, lp_pc, lp_written,
                   fs_tmp, fs_last, fs_ops, fs_written,
                   cmd_ctx, cmd_whitelist, cmd_last, cmd_ops, streamVars>>

\* sessions.retain that also keeps a session idle for exactly the expiry
\* duration
retain_unexpired_or_at_limit(sessions, now) ==
    [sid \in SessionIds |->
        IF sessions[sid].live /\ now - sessions[sid].last_activity <= SessionExpirySecs
        THEN sessions[sid] ELSE NoSessionState]

\* sessions.retain(|_, session| now.duration_since(session.last_activity) <
\* expiry_duration)
retain_unexpired(sessions, now) ==
    [sid \in SessionIds |->
        IF sessions[sid].live /\ now - sessions[sid].last_activity < SessionExpirySecs
        THEN sessions[sid] ELSE NoSessionState]

\* CommunicationHandler::cleanup_expired_sessions
PrCleanup ==
    /\ pr_sessions' = retain_unexpired(pr_sessions, pr_clock)
    /\ pr_cleaned' = TRUE
    /\ UNCHANGED <<pr_clock, pr_pending, pr_hist, pr_lines, pr_passed, pr_registry, lpVars,
                   fsVars, cmdVars, streamVars>>

TickSecs == 30
MaxOffsetSecs == 90
MaxHours == 1

\* Time passes: a fraction of a minute, or a whole session lifetime.
PrTick ==
    /\ \/ /\ (pr_clock % SessionExpirySecs) + TickSecs <= MaxOffsetSecs
          /\ pr_clock' = pr_clock + TickSecs
       \/ /\ pr_clock + SessionExpirySecs <= MaxHours * SessionExpirySecs + MaxOffsetSecs
          /\ pr_clock' = pr_clock + SessionExpirySecs
    /\ pr_cleaned' = FALSE
    /\ UNCHANGED <<pr_sessions, pr_pending, pr_hist, pr_lines, pr_passed, pr_registry, lpVars,
                   fsVars, cmdVars, streamVars>>

\* Lines of the rate-limiting scenarios: heartbeats of two sessions.
RateLines ==
    { MessageLine("s1", "Heartbeat", NoRequestBody),
      MessageLine(NoSession, "Heartbeat", NoRequestBody) }
MaxRateLines == 5

RateNext ==
    \/ \E line \in RateLines : pr_lines < MaxRateLines /\ PrReadLine(line)
    \/ PrProcess
    \/ PrCleanup
    \/ PrTick

APath == TmpDir \o <<F("a", "txt")>>
FsRequest(operation, arg_operation, path, content) ==
    ExecutionRequest("filesystem", operation,
                     Arguments(arg_operation, TRUE, path, content), {})

\* Lines of the protocol scenarios.
ProtoLines ==
    { Line(max_message_size + 1, TRUE, TRUE, NoSession, "Heartbeat", NoRequestBody),
      Line(1, FALSE, FALSE, NoSession, "none", NoRequestBody),
      Line(1, TRUE, FALSE, NoSession, "none", NoRequestBody),
      MessageLine("s1", "Heartbeat", NoRequestBody),
      MessageLine(NoSession, "HealthCheck", NoRequestBody),
      MessageLine(NoSession, "Shutdown", NoRequestBody),
      MessageLine(NoSession, "Response", NoRequestBody),
      MessageLine(NoSession, "ExecutionRequest", FsRequest("write", "none", APath, <<1>>)),
      MessageLine(NoSession, "ExecutionRequest", FsRequest("read", "none", APath, <<>>)),
      MessageLine(NoSession, "ExecutionRequest", FsRequest("write", "write", APath, <<2>>)),
      MessageLine(NoSession, "ExecutionRequest", FsRequest("read", "read", APath, <<>>)),
      MessageLine("s1", "ExecutionRequest", FsRequest("write", "write", APath, <<1>>)),
      MessageLine("ro", "ExecutionRequest", FsRequest("read", "read", APath, <<>>)),
      MessageLine("ro", "ExecutionRequest", FsRequest("exists", "exists", APath, <<>>)),
      MessageLine("ro", "ExecutionRequest", FsRequest("write", "write", APath, <<1>>)),
      MessageLine(NoSession, "ExecutionRequest",
                  FsRequest("read", "read", EtcDir \o <<F("passwd", "")>>, <<>>)),
      MessageLine(NoSession, "ExecutionRequest",
                  ExecutionRequest("command", "execute",
                                   Arguments("none", FALSE, <<>>, <<>>), {})),
      MessageLine(NoSession, "ExecutionRequest",
                  ExecutionRequest("network", "get",
                                   Arguments("none", FALSE, <<>>, <<>>), {})),
      MessageLine(NoSession, "ExecutionRequest",
                  ExecutionRequest("network", "get",
                                   Arguments("none", FALSE, <<>>, <<>>), {"LD_PRELOAD"})) }
MaxProtoLines == 2

ProtoNext ==
    \/ \E line \in ProtoLines : pr_lines < MaxProtoLines /\ PrReadLine(line)
    \/ PrProcess
    \/ PrCleanup
    \/ PrTick

\* CommunicationHandler::new: a handler with an empty registry and no session
PrNew ==
    /\ pr_pending = NoLine
    /\ pr_registry # EmptyRegistry
    /\ pr_registry' = EmptyRegistry
    /\ pr_sessions' = [sid \in SessionIds |-> NoSessionState]
    /\ pr_hist' = <<>>
    /\ pr_passed' = [sid \in SessionIds |-> <<>>]
    /\ pr_cleaned' = FALSE
    /\ UNCHANGED <<pr_clock, pr_pending, pr_lines, lpVars, fsVars, cmdVars, streamVars>>

\* CommunicationHandler::initialize: both executors and the default context
PrInitialize ==
    /\ pr_pending = NoLine
    /\ pr_registry' = [pr_registry EXCEPT
                          !.filesystem_executor = TRUE, !.command_executor = TRUE,
                          !.security_contexts = @ \cup {"default"}]
    /\ pr_registry' # pr_registry
    /\ UNCHANGED <<pr_clock, pr_sessions, pr_pending, pr_hist, pr_lines, pr_passed,
                   pr_cleaned, lpVars, fsVars, cmdVars, streamVars>>

\* Lines of the health-check scenarios.
HealthLines ==
    { MessageLine(NoSession, "HealthCheck", NoRequestBody),
      MessageLine("s1", "HealthCheck", NoRequestBody),
      MessageLine(NoSession, "ExecutionRequest", FsRequest("read", "read", APath, <<>>)),
      MessageLine(NoSession, "ExecutionRequest",
                  ExecutionRequest("command", "execute",
                                   Arguments("none", FALSE, <<>>, <<>>), {})) }
MaxHealthLines == 3

HealthNext ==
    \/ PrNew
    \/ PrInitialize
    \/ \E line \in HealthLines : pr_lines < MaxHealthLines /\ PrReadLine(line)
    \/ PrProcess

loopFrame ==
    <<pr_clock, pr_sessions, pr_pending, pr_hist, pr_lines, pr_passed, pr_registry,
      pr_cleaned, fsVars, cmdVars, streamVars>>

\* run_communication_loop up to select!: the channel is created and the input
\* and output tasks are spawned
LpStart ==
    /\ lp_pc.loop = "idle"
    /\ lp_pc' = [loop |-> "running", input |-> "running", output |-> "running"]
    /\ UNCHANGED <<lp_queue, lp_written, loopFrame>>

\* process_input_stream: read_line returns 0, the loop breaks and tx is dropped
LpEndOfInput ==
    /\ lp_pc.input = "running"
    /\ pr_pending = NoLine
    /\ lp_pc' = [lp_pc EXCEPT !.input = "done"]
    /\ UNCHANGED <<lp_queue, lp_written, loopFrame>>

\* process_output_stream, one message: recv, write_all and flush
LpWrite ==
    /\ lp_pc.output = "running"
    /\ lp_queue # <<>>
    /\ lp_written' = Append(lp_written, Head(lp_queue))
    /\ lp_queue' = Tail(lp_queue)
    /\ UNCHANGED <<lp_pc, loopFrame>>

\* process_output_stream: recv returns None, the channel being empty and its
\* sender dropped
LpEndOfOutput ==
    /\ lp_pc.output = "running"
    /\ lp_queue = <<>>
    /\ lp_pc.input = "done"
    /\ lp_pc' = [lp_pc EXCEPT !.output = "done"]
    /\ UNCHANGED <<lp_queue, lp_written, loopFrame>>

\* run_communication_loop, select!: the first task to complete ends the wait
\* and the function returns Ok(())
LpReturn ==
    /\ lp_pc.loop = "running"
    /\ lp_pc.input = "done" \/ lp_pc.output = "done"
    /\ lp_pc' = [lp_pc EXCEPT !.loop = "returned"]
    /\ UNCHANGED <<lp_queue, lp_written, loopFrame>>

\* Lines of the communication-loop scenarios.
LoopLines ==
    { Line(max_message_size + 1, TRUE, TRUE, NoSession, "Heartbeat", NoRequestBody),
      Line(1, FALSE, FALSE, NoSession, "none", NoRequestBody),
      MessageLine("s1", "Heartbeat", NoRequestBody),
      MessageLine(NoSession, "HealthCheck", NoRequestBody),
      MessageLine(NoSession, "Shutdown", NoRequestBody),
      MessageLine(NoSession, "ExecutionRequest", FsRequest("read", "read", APath, <<>>)) }
MaxLoopLines == 3

LoopNext ==
    \/ LpStart
    \/ \E line \in LoopLines :
          lp_pc.input = "running" /\ pr_lines < MaxLoopLines /\ PrReadLine(line)
    \/ PrProcess
    \/ LpEndOfInput
    \/ LpWrite
    \/ LpEndOfOutput
    \/ LpReturn

(***************************************************************************)
(* Streaming worker pool (streaming/worker_pool.rs)                       *)
(***************************************************************************)
\* WorkerPoolConfig
max_concurrent_streams == 2
circuit_breaker_threshold == 2
circuit_breaker_recovery_ms == 1
max_wait_time_ms == 1

BackpressureStrategies ==
    {"Reject", "WaitWithTimeout", "DropOldest", "CircuitBreaker", "Adaptive"}

MaxSubmissions == 4
MaxPoolClock == 2
SubIds == 1..MaxSubmissions

\* AtomicMetrics (streaming/atomic_metrics.rs): the AtomicU64 counters wrap;
\* CounterModulus stands for 2^64.
CounterModulus == 8
MaxPeakCallers == 2
PeakCallers == 1..MaxPeakCallers
MaxPeakCalls == 3
MaxMemory == 2
MemoryValues == 1..MaxMemory

AtomicMetrics_new ==
    [active_streams |-> 0, peak_active_streams |-> 0, peak_memory_usage_bytes |-> 0]
NoMetricsCall == [pc |-> "idle", active |-> 0, current_peak |-> 0, bytes |-> 0]
NothingSeen == [active |-> 0, memory |-> 0, calls |-> 0]

fetch_add(value, n) == (value + n) % CounterModulus
fetch_sub(value, n) == (value - n) % CounterModulus
\* compare_exchange_weak, which stores only when the value is still `current`
compare_exchange(value, current, new) == IF value = current THEN new ELSE value

\* stream_started run without another call in between
stream_started(metrics) ==
    LET active == metrics.active_streams
        current_peak == metrics.peak_active_streams
    IN  [metrics EXCEPT
           !.active_streams = fetch_add(active, 1),
           !.peak_active_streams =
               IF active + 1 > current_peak
               THEN compare_exchange(current_peak, current_peak, active + 1)
               ELSE current_peak]
stream_completed(metrics) ==
    [metrics EXCEPT !.active_streams = fetch_sub(metrics.active_streams, 1)]

seen_streams(seen, metrics) ==
    [seen EXCEPT !.active = IF metrics.active_streams > seen.active
                            THEN metrics.active_streams ELSE seen.active]

\* CircuitBreakerState::default
BreakerDefault ==
    [state |-> "Closed", consecutive_failures |-> 0, has_trip |-> FALSE, trip_time |-> 0]

NoSubmission ==
    [pc |-> "idle", result |-> "none", wait_start |-> 0, due_reject |-> FALSE,
     recovered |-> FALSE]
NoTask == [pc |-> "none"]
NoCancel == [called |-> FALSE, result |-> FALSE, live |-> FALSE]
NoShutdown ==
    [pc |-> "idle", start |-> 0, timeout_ms |-> 0, forced |-> FALSE,
     left_running |-> FALSE, all_finished |-> FALSE]

\* try_acquire_owned that also succeeds when no permit is left.
try_acquire_owned_unlimited(permits) == permits >= 0

\* Semaphore::try_acquire_owned succeeds when a permit is available.
try_acquire_owned(permits) == permits > 0

\* The breaker is open and the recovery period since the trip has not elapsed.
breaker_rejects(breaker, now) ==
    /\ breaker.state = "Open"
    /\ breaker.has_trip
    /\ ~ (now - breaker.trip_time > circuit_breaker_recovery_ms)

\* The breaker is open and the recovery period has elapsed: the call spawns the
\* task that sets HalfOpen.
breaker_recovers(breaker, now) ==
    /\ breaker.state = "Open"
    /\ breaker.has_trip
    /\ now - breaker.trip_time > circuit_breaker_recovery_ms

\* The spawned task's update of the breaker with the result of the future.
breaker_update(breaker, ok, now) ==
    IF ok
    THEN (IF breaker.state = "HalfOpen"
          THEN [breaker EXCEPT !.state = "Closed", !.consecutive_failures = 0]
          ELSE breaker)
    ELSE LET failures == breaker.consecutive_failures + 1
         IN  IF failures >= circuit_breaker_threshold
             THEN [breaker EXCEPT !.consecutive_failures = failures, !.state = "Open",
                                  !.has_trip = TRUE, !.trip_time = now]
             ELSE [breaker EXCEPT !.consecutive_failures = failures]

\* The ghost record of consecutive failures kept next to the breaker.
streak_after(ok) ==
    IF ok THEN 0
    ELSE IF wp_streak < circuit_breaker_threshold THEN wp_streak + 1
    ELSE wp_streak
trip_after(ok) ==
    IF ~ ok /\ wp_streak + 1 >= circuit_breaker_threshold THEN {wp_clock} ELSE wp_trip_at

WpInit ==
    /\ wp_clock = 0
    /\ wp_strategy = "WaitWithTimeout"
    /\ wp_permits = max_concurrent_streams
    /\ wp_breaker = BreakerDefault
    /\ wp_subs = [i \in SubIds |-> NoSubmission]
    /\ wp_tasks = [i \in SubIds |-> NoTask]
    /\ wp_setters = 0
    /\ wp_streak = 0
    /\ wp_trip_at = {}
    /\ wp_inserts = {}
    /\ wp_active = {}
    /\ wp_cancels = [i \in SubIds |-> NoCancel]
    /\ wp_shutdown = NoShutdown
    /\ am_metrics = AtomicMetrics_new
    /\ am_calls = [c \in PeakCallers |-> NoMetricsCall]
    /\ am_seen = NothingSeen

\* StreamingWorkerPool::new(config), before any submission
WpNew(strategy) ==
    /\ \A i \in SubIds : wp_subs[i].pc = "idle"
    /\ wp_strategy' = strategy
    /\ wp_permits' = max_concurrent_streams
    /\ wp_breaker' = BreakerDefault
    /\ UNCHANGED <<wp_clock, wp_subs, wp_tasks, wp_setters, wp_streak, wp_trip_at, regVars, amVars, nonPoolVars>>

\* execute_file_stream up to the call of apply_backpressure_strategy: the
\* snapshot of the breaker and the decision taken on it
WpSubmit(i) ==
    /\ wp_subs[i].pc = "idle"
    /\ \A j \in SubIds : j < i => wp_subs[j].pc # "idle"
    /\ LET due == \E t \in wp_trip_at : wp_clock - t < circuit_breaker_recovery_ms
       IN  IF breaker_rejects(wp_breaker, wp_clock)
           THEN /\ wp_subs' = [wp_subs EXCEPT ![i] =
                     [pc |-> "done", result |-> "circuit_breaker_open",
                      wait_start |-> 0, due_reject |-> due, recovered |-> FALSE]]
                /\ UNCHANGED wp_setters
           ELSE /\ wp_subs' = [wp_subs EXCEPT ![i] =
                     [pc |-> "backpressure", result |-> "none",
                      wait_start |-> IF wp_strategy = "WaitWithTimeout"
                                     THEN wp_clock ELSE 0,
                      due_reject |-> due,
                      recovered |-> breaker_recovers(wp_breaker, wp_clock)]]
                /\ wp_setters' = wp_setters
                                   + (IF breaker_recovers(wp_breaker, wp_clock) THEN 1 ELSE 0)
    /\ UNCHANGED <<wp_clock, wp_strategy, wp_permits, wp_breaker, wp_tasks, wp_streak,
                   wp_trip_at, regVars, amVars, nonPoolVars>>

\* apply_backpressure_strategy returns a permit and execute_task_with_permit
\* spawns the task that holds it, and a second task that will store the
\* TaskHandle in active_tasks; between the two spawns it calls stream_started
WpAcquire(i) ==
    /\ wp_subs[i].pc = "backpressure"
    /\ try_acquire_owned(wp_permits)
    /\ wp_permits' = wp_permits - 1
    /\ wp_subs' = [wp_subs EXCEPT ![i].pc = "done", ![i].result = "ok",
                                  ![i].wait_start = 0]
    /\ wp_tasks' = [wp_tasks EXCEPT ![i].pc = "running"]
    /\ wp_inserts' = wp_inserts \cup {i}
    /\ am_metrics' = stream_started(am_metrics)
    /\ am_seen' = seen_streams(am_seen, am_metrics')
    /\ UNCHANGED <<wp_clock, wp_strategy, wp_breaker, wp_setters, wp_streak, wp_trip_at,
                   wp_active, wp_cancels, wp_shutdown, am_calls, nonPoolVars>>

\* apply_backpressure_strategy returns an error: no permit at once (Reject,
\* DropOldest, CircuitBreaker, Adaptive) or none within max_wait_time_ms
WpRefuse(i) ==
    /\ wp_subs[i].pc = "backpressure"
    /\ ~ try_acquire_owned(wp_permits)
    /\ IF wp_strategy = "WaitWithTimeout"
       THEN /\ wp_clock - wp_subs[i].wait_start >= max_wait_time_ms
            /\ wp_subs' = [wp_subs EXCEPT ![i].pc = "done", ![i].wait_start = 0,
                                          ![i].result = "backpressure_timeout"]
       ELSE wp_subs' = [wp_subs EXCEPT
                          ![i].pc = "done",
                          ![i].result = IF wp_strategy = "DropOldest"
                                        THEN "streaming_concurrency_drop_oldest"
                                        ELSE "streaming_concurrency"]
    /\ UNCHANGED <<wp_clock, wp_strategy, wp_permits, wp_breaker, wp_tasks, wp_setters,
                   wp_streak, wp_trip_at, regVars, amVars, nonPoolVars>>

\* The spawned task: the select! over the future, the cancellation and the
\* timeout yields a result, the breaker is updated under its write lock, and
\* the metrics record stream_completed for Ok and error_occurred for Err
WpTaskResult(i, ok) ==
    /\ wp_tasks[i].pc = "running"
    /\ wp_tasks' = [wp_tasks EXCEPT ![i].pc = "exiting"]
    /\ wp_breaker' = breaker_update(wp_breaker, ok, wp_clock)
    /\ wp_streak' = streak_after(ok)
    /\ wp_trip_at' = trip_after(ok)
    /\ am_metrics' = IF ok THEN stream_completed(am_metrics) ELSE am_metrics
    /\ am_seen' = seen_streams(am_seen, am_metrics')
    /\ UNCHANGED <<wp_clock, wp_strategy, wp_permits, wp_subs, wp_setters, regVars,
                   am_calls, nonPoolVars>>

\* A task that ends and keeps its permit
WpTaskExit_keeps_permit(i) ==
    /\ wp_tasks[i].pc = "exiting"
    /\ wp_tasks' = [wp_tasks EXCEPT ![i].pc = "gone"]
    /\ UNCHANGED <<wp_clock, wp_strategy, wp_permits, wp_breaker, wp_subs, wp_setters,
                   wp_streak, wp_trip_at, regVars, amVars, nonPoolVars>>

\* The spawned task ends: its permit is dropped
WpTaskExit(i) ==
    /\ wp_tasks[i].pc = "exiting"
    /\ wp_tasks' = [wp_tasks EXCEPT ![i].pc = "gone"]
    /\ wp_permits' = wp_permits + 1
    /\ UNCHANGED <<wp_clock, wp_strategy, wp_breaker, wp_subs, wp_setters, wp_streak,
                   wp_trip_at, regVars, amVars, nonPoolVars>>

\* The task spawned by execute_file_stream after the recovery period:
\* breaker.state = HalfOpen
WpSetHalfOpen ==
    /\ wp_setters > 0
    /\ wp_setters' = wp_setters - 1
    /\ wp_breaker' = [wp_breaker EXCEPT !.state = "HalfOpen"]
    /\ UNCHANGED <<wp_clock, wp_strategy, wp_permits, wp_subs, wp_tasks, wp_streak,
                   wp_trip_at, regVars, amVars, nonPoolVars>>

WpTick ==
    /\ wp_clock < MaxPoolClock
    /\ wp_clock' = wp_clock + 1
    /\ UNCHANGED <<wp_strategy, wp_permits, wp_breaker, wp_subs, wp_tasks, wp_setters,
                   wp_streak, wp_trip_at, regVars, amVars, nonPoolVars>>

\* The task spawned at the end of execute_task_with_permit:
\* active_tasks.insert(task_id, task_handle)
WpInsert(i) ==
    /\ i \in wp_inserts
    /\ wp_inserts' = wp_inserts \ {i}
    /\ wp_active' = wp_active \cup {i}
    /\ UNCHANGED <<wp_clock, wp_strategy, wp_permits, wp_breaker, wp_subs, wp_tasks,
                   wp_setters, wp_streak, wp_trip_at, wp_cancels, wp_shutdown, amVars,
                   nonPoolVars>>

\* cancel_task(task_id) for the id execute_file_stream returned to submission
\* i: a handle found in active_tasks is removed, signalled and aborted (the
\* aborted task drops its permit without recording a result) and
\* stream_completed is recorded; no handle found, the call returns false.  The record keeps whether the task was
\* still running at the call.
WpCancel(i) ==
    /\ wp_subs[i].pc = "done" /\ wp_subs[i].result = "ok"
    /\ ~ wp_cancels[i].called
    /\ wp_cancels' = [wp_cancels EXCEPT ![i] =
                         [called |-> TRUE, result |-> i \in wp_active,
                          live |-> wp_tasks[i].pc = "running"]]
    /\ wp_active' = wp_active \ {i}
    /\ IF i \in wp_active /\ wp_tasks[i].pc \in {"running", "exiting"}
       THEN /\ wp_tasks' = [wp_tasks EXCEPT ![i].pc = "gone"]
            /\ wp_permits' = wp_permits + 1
       ELSE UNCHANGED <<wp_tasks, wp_permits>>
    /\ am_metrics' = IF i \in wp_active THEN stream_completed(am_metrics) ELSE am_metrics
    /\ am_seen' = seen_streams(am_seen, am_metrics')
    /\ UNCHANGED <<wp_clock, wp_strategy, wp_breaker, wp_subs, wp_setters, wp_streak,
                   wp_trip_at, wp_inserts, wp_shutdown, am_calls, nonPoolVars>>

\* shutdown_gracefully(timeout_ms) is called: start_time is taken
WpShutdownCall(timeout_ms) ==
    /\ wp_shutdown.pc = "idle"
    /\ wp_shutdown' = [NoShutdown EXCEPT !.pc = "polling", !.start = wp_clock,
                                         !.timeout_ms = timeout_ms]
    /\ UNCHANGED <<wp_clock, wp_strategy, wp_permits, wp_breaker, wp_subs, wp_tasks,
                   wp_setters, wp_streak, wp_trip_at, wp_inserts, wp_active, wp_cancels,
                   amVars, nonPoolVars>>

\* One round of the loop of shutdown_gracefully: active_tasks empty, return;
\* the timeout passed, drain active_tasks signalling and aborting every handle
\* and return; otherwise sleep and look again.  The record keeps, at the
\* return, whether a submitted task was still running and whether every
\* submitted task had already finished.
WpShutdownPoll ==
    /\ wp_shutdown.pc = "polling"
    /\ LET finished == \A i \in SubIds : wp_tasks[i].pc \in {"none", "gone"}
           aborted == { i \in wp_active : wp_tasks[i].pc \in {"running", "exiting"} }
       IN  IF wp_active = {}
           THEN /\ wp_shutdown' =
                      [wp_shutdown EXCEPT
                         !.pc = "returned", !.all_finished = finished,
                         !.left_running = \E i \in SubIds : wp_tasks[i].pc = "running"]
                /\ UNCHANGED <<wp_active, wp_tasks, wp_permits>>
           ELSE IF wp_clock - wp_shutdown.start > wp_shutdown.timeout_ms
           THEN /\ wp_active' = {}
                /\ wp_tasks' = [i \in SubIds |->
                                  IF i \in aborted THEN [wp_tasks[i] EXCEPT !.pc = "gone"]
                                  ELSE wp_tasks[i]]
                /\ wp_permits' = wp_permits + Cardinality(aborted)
                /\ wp_shutdown' =
                      [wp_shutdown EXCEPT
                         !.pc = "returned", !.forced = TRUE, !.all_finished = finished,
                         !.left_running =
                             \E i \in SubIds \ aborted : wp_tasks[i].pc = "running"]
           ELSE UNCHANGED <<wp_shutdown, wp_active, wp_tasks, wp_permits>>
    /\ UNCHANGED <<wp_clock, wp_strategy, wp_breaker, wp_subs, wp_setters, wp_streak,
                   wp_trip_at, wp_inserts, wp_cancels, amVars, nonPoolVars>>

PoolNext ==
    \/ \E strategy \in BackpressureStrategies : WpNew(strategy)
    \/ \E i \in SubIds : WpSubmit(i)
    \/ \E i \in SubIds : WpAcquire(i)
    \/ \E i \in SubIds : WpRefuse(i)
    \/ \E i \in SubIds, ok \in BOOLEAN : WpTaskResult(i, ok)
    \/ \E i \in SubIds : WpTaskExit(i)
    \/ WpSetHalfOpen
    \/ WpTick

(***************************************************************************)
(* Chunk batcher (streaming/chunk_batcher.rs).  A chunk is its stream id,  *)
(* sequence, size in bytes and is_last flag; a batch is a sequence of      *)
(* chunks.                                                                 *)
(***************************************************************************)
StreamChunk(stream_id, sequence, size, is_last) ==
    [stream_id |-> stream_id, sequence |-> sequence, size |-> size, is_last |-> is_last]

\* ContextOptimizations::default, in the model's unit of chunks and bytes
ContextOptimizations ==
    [file_reading    |-> [max_chunks |-> 3, max_bytes |-> 5, priority_threshold |-> 4],
     command_output  |-> [max_chunks |-> 2, max_bytes |-> 3, priority_threshold |-> 2],
     network_stream  |-> [max_chunks |-> 3, max_bytes |-> 4, priority_threshold |-> 3],
     code_generation |-> [max_chunks |-> 2, max_bytes |-> 4, priority_threshold |-> 3]]

ContextTypes == {"default", "fileAnalysis", "commandOutput", "codeGeneration"}

get_context_params(context_type) ==
    CASE context_type \in {"file_reading", "fileAnalysis"} -> ContextOptimizations.file_reading
      [] context_type \in {"command_output", "commandOutput"} ->
            ContextOptimizations.command_output
      [] context_type = "network_stream" -> ContextOptimizations.network_stream
      [] context_type \in {"code_generation", "codeGeneration"} ->
            ContextOptimizations.code_generation
      [] OTHER -> ContextOptimizations.file_reading

\* ChunkBatch::default
ChunkBatchDefault == [chunks |-> <<>>, total_bytes |-> 0, stream_id |-> "", range |-> <<>>]

\* flush_batch records js_processing_time_us = 0 for every batch and nothing
\* else writes it, so the recent average never exceeds the 10 ms threshold.
should_adaptive_flush == FALSE

\* should_flush without the limit on the number of chunks
should_flush_no_chunk_limit(batch, context_type, expired) ==
    LET batch_params == get_context_params(context_type)
    IN  IF batch.chunks = <<>> THEN FALSE
        ELSE \/ batch.total_bytes >= batch_params.priority_threshold
             \/ batch.total_bytes >= batch_params.max_bytes
             \/ expired
             \/ batch.chunks[Len(batch.chunks)].is_last

\* should_flush; expired says whether max_hold_us has passed since the first
\* chunk of the batch
should_flush(batch, context_type, expired) ==
    LET batch_params == get_context_params(context_type)
    IN  IF batch.chunks = <<>> THEN FALSE
        ELSE \/ batch.total_bytes >= batch_params.priority_threshold
             \/ Len(batch.chunks) >= batch_params.max_chunks
             \/ batch.total_bytes >= batch_params.max_bytes
             \/ expired
             \/ batch.chunks[Len(batch.chunks)].is_last
             \/ should_adaptive_flush

\* flush_batch: the batch left behind, the chunks handed to batch_callback and
\* the result; callback_ok is the result of the callback
flush_batch(batch, callback_ok) ==
    IF batch.chunks = <<>>
    THEN [batch |-> batch, handed |-> <<>>, ok |-> TRUE]
    ELSE IF ~ callback_ok
    THEN [batch |-> [batch EXCEPT !.chunks = <<>>], handed |-> batch.chunks, ok |-> FALSE]
    ELSE [batch |-> ChunkBatchDefault, handed |-> batch.chunks, ok |-> TRUE]

add_chunk(batch, chunk, context_type, expired, callback_ok) ==
    LET started ==
            IF batch.chunks = <<>>
            THEN [batch EXCEPT !.stream_id = chunk.stream_id,
                               !.range = <<chunk.sequence, chunk.sequence>>]
            ELSE IF batch.range # <<>>
            THEN [batch EXCEPT !.range[2] = IF chunk.sequence > @ THEN chunk.sequence ELSE @]
            ELSE batch
        added == [started EXCEPT !.total_bytes = @ + chunk.size,
                                 !.chunks = Append(@, chunk)]
    IN  IF should_flush(added, context_type, expired)
        THEN flush_batch(added, callback_ok)
        ELSE [batch |-> added, handed |-> <<>>, ok |-> TRUE]

MaxBatcherCalls == 3
MaxSequence == 2
ChunkSizes == {1, 2}
ChunkStreamIds == {"s1", "s2"}
Chunks ==
    { StreamChunk(id, sequence, size, is_last) :
        id \in ChunkStreamIds, sequence \in 0..MaxSequence,
        size \in ChunkSizes, is_last \in BOOLEAN }

NoBatcherCall == [op |-> "none", context_type |-> "", ok |-> TRUE]

BtInit ==
    /\ bt_batcher = ChunkBatchDefault
    /\ bt_handed = <<>>
    /\ bt_calls = 0
    /\ bt_call = NoBatcherCall

\* ChunkBatcher::add_chunk
BtAddChunk(chunk, context_type, expired, callback_ok) ==
    /\ bt_calls < MaxBatcherCalls
    /\ \E out \in { add_chunk(bt_batcher, chunk, context_type, expired, callback_ok) } :
          /\ bt_batcher' = out.batch
          /\ bt_handed' = out.handed
          /\ bt_call' = [op |-> "add_chunk", context_type |-> context_type, ok |-> out.ok]
    /\ bt_calls' = bt_calls + 1
    /\ UNCHANGED <<coreVars, wpVars, enVars>>

\* ChunkBatcher::force_flush
BtForceFlush(callback_ok) ==
    /\ bt_calls < MaxBatcherCalls
    /\ \E out \in { flush_batch(bt_batcher, callback_ok) } :
          /\ bt_batcher' = out.batch
          /\ bt_handed' = out.handed
          /\ bt_call' = [bt_call EXCEPT !.op = "force_flush", !.ok = out.ok]
    /\ bt_calls' = bt_calls + 1
    /\ UNCHANGED <<coreVars, wpVars, enVars>>

BatchNext ==
    \/ \E chunk \in Chunks, context_type \in ContextTypes, expired \in BOOLEAN,
          callback_ok \in BOOLEAN : BtAddChunk(chunk, context_type, expired, callback_ok)
    \/ \E callback_ok \in BOOLEAN : BtForceFlush(callback_ok)

(***************************************************************************)
(* Entry points of RustExecutor (lib.rs) and the streaming engine          *)
(* (streaming/mod.rs).  Stream s reports to the host callback s.           *)
(***************************************************************************)
MaxStreams == 2
MaxEntryCalls == 2
MaxLines == 2
StreamIds == 1..MaxStreams

NoBatcher == [some |-> FALSE, callback |-> 0, batch |-> ChunkBatchDefault]

NoStream ==
    [pc |-> "idle", kind |-> "none", path |-> <<>>, command |-> "", args |-> <<>>,
     chunk_size |-> 0, context_type |-> "", produced |-> FALSE, failed |-> FALSE,
     chunks |-> 0, handed_to |-> 0, undelivered |-> 0]

\* The chunks execute_file_streaming_core collects: chunk_size bytes each, the
\* rest in the final one, sequences from 0, is_last on the final one.
file_chunks(content, chunk_size) ==
    LET n == (Len(content) + chunk_size - 1) \div chunk_size
    IN  [k \in 1..n |->
            StreamChunk("worker_pool_stream", k - 1,
                        IF k * chunk_size <= Len(content) THEN chunk_size
                        ELSE Len(content) - (k - 1) * chunk_size,
                        k = n)]

\* The chunks execute_command_streaming_core collects: one for each line.
command_chunks(lines) ==
    [k \in 1..lines |-> StreamChunk("command_stream", k - 1, 1, k = lines)]

\* The loop of execute_*_streaming_with_batching under the batcher's write
\* lock: add_chunk for each chunk from the i-th on, then force_flush.  The hold
\* time has expired at the chunks in expiry, and the callback call made by the
\* fail_at-th step fails.
RECURSIVE add_chunks_and_flush(_, _, _, _, _, _)
add_chunks_and_flush(batch, chunks, context_type, expiry, fail_at, i) ==
    IF i > Len(chunks)
    THEN LET flushed == flush_batch(batch, fail_at # i)
         IN  [batch |-> flushed.batch,
              delivered |-> IF flushed.ok THEN flushed.handed ELSE <<>>,
              ok |-> flushed.ok]
    ELSE LET added == add_chunk(batch, chunks[i], context_type, i \in expiry, fail_at # i)
         IN  IF ~ added.ok
             THEN [batch |-> added.batch, delivered |-> <<>>, ok |-> FALSE]
             ELSE LET rest == add_chunks_and_flush(added.batch, chunks, context_type,
                                                   expiry, fail_at, i + 1)
                  IN  [batch |-> rest.batch,
                       delivered |-> added.handed \o rest.delivered,
                       ok |-> rest.ok]

\* A file opened or a child spawned by an entry point, with what the service's
\* security context says of the request.
Opened(entry, fs, operation, path) ==
    [entry |-> entry, kind |-> "open",
     allowed |-> validate_operation(FsContext, fs, operation, path)]
Spawned(entry, fs, request) ==
    [entry |-> entry, kind |-> "spawn",
     allowed |-> validate_command_security(for_command_execution,
                                           load_command_whitelist(NoAllowlistFile),
                                           fs, request) = "ok"]

\* PerformanceMetrics::default
PerformanceMetrics_default ==
    [total_requests |-> 0, successful_requests |-> 0, failed_requests |-> 0]

\* metrics.total_requests += 1
count_request(metrics) == [metrics EXCEPT !.total_requests = @ + 1]

\* count_outcome counting successes only.
count_outcome_success_only(metrics, success) ==
    IF success THEN [metrics EXCEPT !.successful_requests = @ + 1] ELSE metrics

\* if success { successful_requests += 1 } else { failed_requests += 1 }
count_outcome(metrics, success) ==
    IF success THEN [metrics EXCEPT !.successful_requests = @ + 1]
    ELSE [metrics EXCEPT !.failed_requests = @ + 1]

\* RustExecutor::_update_performance_metrics, and the same update written
\* out in read_file_fast
update_performance_metrics(metrics, success) ==
    count_outcome(count_request(metrics), success)

MaxCallers == 2
Callers == 1..MaxCallers
NoHolder == 0
NoCall == [pc |-> "idle", kind |-> "none", success |-> FALSE]

\* RwLock::try_write
try_write(lock) == lock = NoHolder

EnInit ==
    /\ mx_metrics = PerformanceMetrics_default
    /\ mx_lock = NoHolder
    /\ mx_callers = [t \in Callers |-> NoCall]
    /\ mx_started = 0
    /\ en_initialized = FALSE
    /\ en_calls = 0
    /\ en_effects = {}
    /\ st_batcher = NoBatcher
    /\ st_streams = [s \in StreamIds |-> NoStream]
    /\ st_delivered = [s \in StreamIds |-> <<>>]

\* What an entry point leaves alone in the other subsystems.
entryCore ==
    <<fs_tmp, fs_last, fs_ops, fs_written, cmdVars, prVars, btVars,
      wp_clock, wp_strategy, wp_subs, wp_tasks, regVars, am_calls>>
mxFrame == <<mx_lock, mx_callers, mx_started>>
entryFrame == <<entryCore, mxFrame, mx_metrics>>
poolFrame ==
    <<wp_permits, wp_breaker, wp_setters, wp_streak, wp_trip_at, am_metrics, am_seen>>
streamFrame == <<st_batcher, st_streams, st_delivered>>

\* RustExecutor::initialize
EnInitialize ==
    /\ ~ en_initialized
    /\ en_initialized' = TRUE
    /\ UNCHANGED <<fsys, en_calls, en_effects, entryFrame, poolFrame, streamFrame>>

\* RustExecutor::execute: the request goes to the registry without a session,
\* and the outcome is counted under the write lock of performance_metrics
EnExecute(tool_id, arguments, command_request) ==
    /\ en_calls < MaxEntryCalls
    /\ mx_lock = NoHolder
    /\ en_calls' = en_calls + 1
    /\ IF ~ en_initialized
       THEN UNCHANGED <<fsys, en_effects, mx_metrics>>
       ELSE CASE tool_id = "filesystem" ->
                   \E out \in { filesystem_execute(FsContext, fsys, arguments) } :
                       /\ fsys' = out.fs
                       /\ mx_metrics' = update_performance_metrics(mx_metrics,
                                                                   out.resp.success)
                       /\ en_effects' =
                            IF out.resp \in {FsInvalid, FsSecurity} THEN en_effects
                            ELSE en_effects \cup
                                   {Opened("execute", fsys, arguments.operation,
                                           arguments.path)}
              [] tool_id = "command" ->
                   \E out \in command_execute(cmd_ctx, cmd_whitelist, fsys, command_request) :
                       /\ en_effects' =
                            IF out.spawned
                            THEN en_effects \cup {Spawned("execute", fsys, command_request)}
                            ELSE en_effects
                       /\ mx_metrics' = update_performance_metrics(mx_metrics,
                                                                   out.resp.success)
                       /\ UNCHANGED fsys
              [] OTHER ->
                   /\ mx_metrics' = update_performance_metrics(mx_metrics, FALSE)
                   /\ UNCHANGED <<fsys, en_effects>>
    /\ UNCHANGED <<en_initialized, entryCore, mxFrame, poolFrame, streamFrame>>

\* RustExecutor::execute_filesystem
EnExecuteFilesystem(operation, path, content) ==
    EnExecute("filesystem", Arguments(operation, TRUE, path, content), ProtocolCommand)

\* RustExecutor::execute_command
EnExecuteCommand(command, args) ==
    EnExecute("command", Arguments("none", FALSE, <<>>, <<>>),
              CommandRequest(TRUE, command, args, NoDir, {}))

\* RustExecutor::read_file_fast
EnReadFileFast(path) ==
    /\ en_calls < MaxEntryCalls
    /\ en_calls' = en_calls + 1
    /\ en_effects' = IF PathIsFile(fsys, path)
                     THEN en_effects \cup {Opened("read_file_fast", fsys, "read", path)}
                     ELSE en_effects
    /\ mx_metrics' = IF try_write(mx_lock)
                     THEN update_performance_metrics(mx_metrics, PathIsFile(fsys, path))
                     ELSE mx_metrics
    /\ UNCHANGED <<fsys, en_initialized, entryCore, mxFrame, poolFrame, streamFrame>>

\* StreamingWorkerPool::execute_file_stream as the engine calls it: the
\* breaker check, the permit, the spawn of the task for stream s and
\* stream_started
StAdmit(s, stream) ==
    IF breaker_rejects(wp_breaker, wp_clock)
    THEN /\ st_streams' = [st_streams EXCEPT ![s] = [stream EXCEPT !.pc = "rejected"]]
         /\ UNCHANGED <<wp_permits, wp_setters, am_metrics, am_seen>>
    ELSE /\ wp_setters' = wp_setters
                            + (IF breaker_recovers(wp_breaker, wp_clock) THEN 1 ELSE 0)
         /\ IF try_acquire_owned(wp_permits)
            THEN /\ wp_permits' = wp_permits - 1
                 /\ st_streams' = [st_streams EXCEPT ![s] = [stream EXCEPT !.pc = "running"]]
                 /\ am_metrics' = stream_started(am_metrics)
                 /\ am_seen' = seen_streams(am_seen, am_metrics')
            ELSE /\ st_streams' = [st_streams EXCEPT ![s] = [stream EXCEPT !.pc = "rejected"]]
                 /\ UNCHANGED <<wp_permits, am_metrics, am_seen>>

\* RustExecutor::stream_file, StreamingEngine::stream_file_content
EnStreamFile(s, path, chunk_size, context_type) ==
    /\ st_streams[s].pc = "idle"
    /\ \A j \in StreamIds : j < s => st_streams[j].pc # "idle"
    /\ st_batcher' = [some |-> TRUE, callback |-> s, batch |-> ChunkBatchDefault]
    /\ StAdmit(s, [NoStream EXCEPT !.kind = "file", !.path = path,
                                   !.chunk_size = chunk_size,
                                   !.context_type = context_type])
    /\ UNCHANGED <<fsys, en_initialized, en_calls, en_effects, st_delivered, entryFrame,
                   wp_breaker, wp_streak, wp_trip_at>>

\* RustExecutor::stream_command, StreamingEngine::stream_command_output
EnStreamCommand(s, command, args) ==
    /\ st_streams[s].pc = "idle"
    /\ \A j \in StreamIds : j < s => st_streams[j].pc # "idle"
    /\ StAdmit(s, [NoStream EXCEPT !.kind = "command", !.command = command,
                                   !.args = args, !.context_type = "commandOutput"])
    /\ UNCHANGED <<fsys, en_initialized, en_calls, en_effects, st_batcher, st_delivered,
                   entryFrame, wp_breaker, wp_streak, wp_trip_at>>

\* The end of the task spawned for stream s: the chunks go through the engine's
\* batcher if there is one, the breaker and the metrics are updated with the
\* task's result and the permit is dropped.  An error of the producer is not
\* passed on (`if let Ok(chunks) = result { ... } Ok(())`): the task's result
\* is an error only when add_chunk or force_flush returns one.
\* The stream's record keeps how many chunks the producer made, whose callback
\* the batcher it used calls (0: no batcher) and how many chunks were not
\* delivered.
\* The hold time may have expired at any of the chunks, and any one of the
\* callback calls may fail.
StFinish(s, produced, chunks) ==
    /\ \E out \in IF produced /\ st_batcher.some
                  THEN { add_chunks_and_flush(st_batcher.batch, chunks,
                                              st_streams[s].context_type, expiry, fail_at, 1) :
                           expiry \in SUBSET (1..Len(chunks)),
                           fail_at \in 0..(Len(chunks) + 1) }
                  ELSE { [batch |-> st_batcher.batch, delivered |-> <<>>, ok |-> TRUE] } :
          /\ st_batcher' = [st_batcher EXCEPT !.batch = out.batch]
          /\ st_delivered' =
                IF st_batcher.some
                THEN [st_delivered EXCEPT ![st_batcher.callback] = @ \o out.delivered]
                ELSE st_delivered
          /\ st_streams' =
                [st_streams EXCEPT
                   ![s].pc = "done", ![s].produced = produced, ![s].failed = ~ out.ok,
                   ![s].chunks = Len(chunks),
                   ![s].handed_to = IF st_batcher.some THEN st_batcher.callback ELSE 0,
                   ![s].undelivered =
                       IF st_batcher.some
                       THEN (IF Len(st_batcher.batch.chunks) + Len(chunks) > Len(out.delivered)
                             THEN Len(st_batcher.batch.chunks) + Len(chunks) - Len(out.delivered)
                             ELSE 0)
                       ELSE Len(chunks)]
          /\ wp_breaker' = breaker_update(wp_breaker, out.ok, wp_clock)
          /\ wp_streak' = streak_after(out.ok)
          /\ wp_trip_at' = trip_after(out.ok)
          /\ am_metrics' = IF out.ok THEN stream_completed(am_metrics) ELSE am_metrics
          /\ am_seen' = seen_streams(am_seen, am_metrics')
    /\ wp_permits' = wp_permits + 1
    /\ UNCHANGED <<fsys, en_initialized, en_calls, wp_setters, entryFrame>>

\* StreamingEngine::execute_file_streaming_with_batching in the spawned task
StRunFile(s) ==
    /\ st_streams[s].pc = "running"
    /\ st_streams[s].kind = "file"
    /\ en_effects' = IF PathExists(fsys, st_streams[s].path)
                     THEN en_effects \cup
                            {Opened("stream_file", fsys, "read", st_streams[s].path)}
                     ELSE en_effects
    /\ IF PathIsFile(fsys, st_streams[s].path)
       THEN StFinish(s, TRUE,
                     file_chunks(fsys[Normalize(st_streams[s].path)].c,
                                 st_streams[s].chunk_size))
       ELSE StFinish(s, FALSE, <<>>)

\* StreamingEngine::execute_command_streaming_with_batching in the spawned
\* task; the child starts or not and prints the given number of lines
StRunCommand(s, started, lines) ==
    /\ st_streams[s].pc = "running"
    /\ st_streams[s].kind = "command"
    /\ en_effects' =
          IF started
          THEN en_effects \cup
                 {Spawned("stream_command", fsys,
                          CommandRequest(TRUE, st_streams[s].command, st_streams[s].args,
                                         NoDir, {}))}
          ELSE en_effects
    /\ IF started
       THEN StFinish(s, TRUE, command_chunks(lines))
       ELSE StFinish(s, FALSE, <<>>)

\* What the host asks of the entry points in the model.
\* What a step on performance_metrics leaves alone.
metricsFrame ==
    <<coreVars, wpVars, btVars, en_initialized, en_calls, en_effects, st_batcher,
      st_streams, st_delivered>>
MaxMetricCalls == 3

\* RustExecutor::execute called by t on an initialized executor, up to the
\* response of communication_handler.execute_request
MxExecute(t, success) ==
    /\ en_initialized
    /\ mx_callers[t].pc = "idle"
    /\ mx_started < MaxMetricCalls
    /\ mx_started' = mx_started + 1
    /\ mx_callers' = [mx_callers EXCEPT ![t] =
                        [pc |-> "waiting", kind |-> "execute", success |-> success]]
    /\ UNCHANGED <<mx_metrics, mx_lock, metricsFrame>>

\* RustExecutor::reset_performance_metrics called by t
MxReset(t) ==
    /\ mx_callers[t].pc = "idle"
    /\ mx_started < MaxMetricCalls
    /\ mx_started' = mx_started + 1
    /\ mx_callers' = [mx_callers EXCEPT ![t] =
                        [pc |-> "waiting", kind |-> "reset", success |-> FALSE]]
    /\ UNCHANGED <<mx_metrics, mx_lock, metricsFrame>>

\* performance_metrics.write().await returns to t
MxAcquire(t) ==
    /\ mx_callers[t].pc = "waiting"
    /\ mx_lock = NoHolder
    /\ mx_lock' = t
    /\ mx_callers' = [mx_callers EXCEPT ![t].pc = "locked"]
    /\ UNCHANGED <<mx_metrics, mx_started, metricsFrame>>

\* RustExecutor::read_file_fast called by t, up to try_write: the read
\* succeeded or failed, and the update is skipped when the lock is taken
MxReadFileFast(t, success) ==
    /\ mx_callers[t].pc = "idle"
    /\ mx_started < MaxMetricCalls
    /\ mx_started' = mx_started + 1
    /\ IF try_write(mx_lock)
       THEN /\ mx_lock' = t
            /\ mx_callers' = [mx_callers EXCEPT ![t] =
                                [pc |-> "locked", kind |-> "read_file_fast",
                                 success |-> success]]
       ELSE UNCHANGED <<mx_lock, mx_callers>>
    /\ UNCHANGED <<mx_metrics, metricsFrame>>

\* metrics.total_requests += 1, by the holder of the lock
MxCountRequest(t) ==
    /\ mx_lock = t
    /\ mx_callers[t].pc = "locked"
    /\ mx_callers[t].kind \in {"execute", "read_file_fast"}
    /\ mx_metrics' = count_request(mx_metrics)
    /\ mx_callers' = [mx_callers EXCEPT ![t].pc = "counted"]
    /\ UNCHANGED <<mx_lock, mx_started, metricsFrame>>

\* The outcome is counted and the guard is dropped.
MxCountOutcome(t) ==
    /\ mx_lock = t
    /\ mx_callers[t].pc = "counted"
    /\ mx_metrics' = count_outcome(mx_metrics, mx_callers[t].success)
    /\ mx_lock' = NoHolder
    /\ mx_callers' = [mx_callers EXCEPT ![t] = NoCall]
    /\ UNCHANGED <<mx_started, metricsFrame>>

\* *metrics = PerformanceMetrics::default(), and the guard is dropped
MxResetStore(t) ==
    /\ mx_lock = t
    /\ mx_callers[t].pc = "locked"
    /\ mx_callers[t].kind = "reset"
    /\ mx_metrics' = PerformanceMetrics_default
    /\ mx_lock' = NoHolder
    /\ mx_callers' = [mx_callers EXCEPT ![t] = NoCall]
    /\ UNCHANGED <<mx_started, metricsFrame>>

MetricsNext ==
    \/ EnInitialize
    \/ \E t \in Callers, success \in BOOLEAN : MxExecute(t, success)
    \/ \E t \in Callers : MxReset(t)
    \/ \E t \in Callers : MxAcquire(t)
    \/ \E t \in Callers, success \in BOOLEAN : MxReadFileFast(t, success)
    \/ \E t \in Callers : MxCountRequest(t)
    \/ \E t \in Callers : MxCountOutcome(t)
    \/ \E t \in Callers : MxResetStore(t)

EntryFsRequests ==
    { <<"write", TmpDir \o <<F("a", "txt")>>, <<>> >>,
      <<"write", TmpDir \o <<F("a", "txt")>>, <<1, 2>> >>,
      <<"read", TmpDir \o <<F("a", "txt")>>, <<>> >>,
      <<"read", EtcDir \o <<F("passwd", "")>>, <<>> >> }
EntryCommands == { <<"ls", <<>> >>, <<"rm", << <<"-","r","f">>, <<"/">> >> >> }
EntryPaths == { TmpDir \o <<F("a", "txt")>>, EtcDir \o <<F("passwd", "")>> }
ChunkSizeChoices == {1, 2}

EntryNext ==
    \/ EnInitialize
    \/ \E tool_id \in {"filesystem", "other"} :
          EnExecute(tool_id, Arguments("read", FALSE, <<>>, <<>>), ProtocolCommand)
    \/ \E r \in EntryFsRequests : EnExecuteFilesystem(r[1], r[2], r[3])
    \/ \E c \in EntryCommands : EnExecuteCommand(c[1], c[2])
    \/ \E path \in EntryPaths : EnReadFileFast(path)
    \/ \E s \in StreamIds, path \in EntryPaths, chunk_size \in ChunkSizeChoices,
          context_type \in {"default", "commandOutput"} :
          EnStreamFile(s, path, chunk_size, context_type)
    \/ \E s \in StreamIds, c \in EntryCommands : EnStreamCommand(s, c[1], c[2])
    \/ \E s \in StreamIds : StRunFile(s)
    \/ \E s \in StreamIds, started \in BOOLEAN, lines \in 0..MaxLines :
          StRunCommand(s, started, lines)

(***************************************************************************)
(* Specifications: one per subsystem, over the same initial state.        *)
(***************************************************************************)
Init == FsInit /\ CmdInit /\ PrInit /\ WpInit /\ BtInit /\ EnInit

SpecFs == Init /\ [][FsNext]_vars
\* Requests that go through FileSystemExecutor::execute in one step, so that
\* the path rules are applied to file systems that requests have changed.
MaxPathOps == 2
PathNext ==
    /\ fs_ops < MaxPathOps
    /\ \/ \E op \in PathOnlyOps, path \in ReqPaths : FsExecute(op, path, <<>>, FALSE)
       \/ \E path \in ReqPaths, content \in ReqContents :
             FsExecute("append", path, content, FALSE)
       \/ \E path \in ReqPaths, r \in BOOLEAN : FsExecute("create_dir", path, <<>>, r)
SpecPath == Init /\ [][PathNext]_vars
SpecCmd == Init /\ [][CmdNext]_vars
SpecWhitelist == Init /\ [][WhitelistNext]_vars
SpecRate == Init /\ [][RateNext]_vars
SpecProto == Init /\ [][ProtoNext]_vars
SpecLoop == Init /\ [][LoopNext]_vars
SpecHealth == Init /\ [][HealthNext]_vars
SpecPool == Init /\ [][PoolNext]_vars

\* Submissions that fit the pool, their tasks, the registration of the task
\* handles and calls of cancel_task.
MaxCancelSubs == 2
CancelNext ==
    \E i \in 1..MaxCancelSubs :
        \/ WpSubmit(i)
        \/ WpAcquire(i)
        \/ \E ok \in BOOLEAN : WpTaskResult(i, ok)
        \/ WpTaskExit(i)
        \/ WpInsert(i)
        \/ WpCancel(i)
SpecCancel == Init /\ [][CancelNext]_vars

\* The same steps on a runtime that keeps polling its spawned tasks: while a
\* task is running or returning, some task takes its next step (the select!
\* of an admitted task completes at the latest by its sleep(timeout) branch,
\* and a task that has its result returns).
TaskFairness ==
    WF_vars(\E i \in 1..MaxCancelSubs :
               \/ \E ok \in BOOLEAN : WpTaskResult(i, ok)
               \/ WpTaskExit(i))
SpecTaskEnds == Init /\ [][CancelNext]_vars /\ TaskFairness

\* Submissions that fit the pool, their tasks, the registration of the task
\* handles, time, and one call of shutdown_gracefully.
ShutdownTimeouts == {0, 1}
ShutdownNext ==
    \/ \E i \in 1..MaxCancelSubs :
          \/ WpSubmit(i)
          \/ WpAcquire(i)
          \/ \E ok \in BOOLEAN : WpTaskResult(i, ok)
          \/ WpTaskExit(i)
          \/ WpInsert(i)
    \/ WpTick
    \/ \E timeout_ms \in ShutdownTimeouts : WpShutdownCall(timeout_ms)
    \/ WpShutdownPoll
SpecShutdown == Init /\ [][ShutdownNext]_vars

\* Concurrent callers of AtomicMetrics, one atomic operation per step.
\* stream_started: active_streams.fetch_add(1)
AmStartedFetchAdd(c) ==
    /\ am_calls[c].pc = "idle"
    /\ am_seen.calls < MaxPeakCalls
    /\ am_metrics' = [am_metrics EXCEPT
                        !.active_streams = fetch_add(am_metrics.active_streams, 1)]
    /\ am_calls' = [am_calls EXCEPT ![c] =
                       [NoMetricsCall EXCEPT !.pc = "load_peak",
                                             !.active = am_metrics.active_streams]]
    /\ am_seen' = [seen_streams(am_seen, am_metrics') EXCEPT !.calls = am_seen.calls + 1]
    /\ UNCHANGED <<wp_clock, wp_strategy, wp_permits, wp_breaker, wp_subs, wp_tasks,
                   wp_setters, wp_streak, wp_trip_at, regVars, nonPoolVars>>

\* stream_started: peak_active_streams.load and the comparison
AmStartedLoadPeak(c) ==
    /\ am_calls[c].pc = "load_peak"
    /\ am_calls' = [am_calls EXCEPT ![c] =
                       IF am_calls[c].active + 1 > am_metrics.peak_active_streams
                       THEN [am_calls[c] EXCEPT
                               !.pc = "cas_peak",
                               !.current_peak = am_metrics.peak_active_streams]
                       ELSE NoMetricsCall]
    /\ UNCHANGED <<wp_clock, wp_strategy, wp_permits, wp_breaker, wp_subs, wp_tasks,
                   wp_setters, wp_streak, wp_trip_at, regVars, am_metrics, am_seen,
                   nonPoolVars>>

\* stream_started: compare_exchange_weak(current_peak, active + 1), result dropped
AmStartedCas(c) ==
    /\ am_calls[c].pc = "cas_peak"
    /\ am_metrics' = [am_metrics EXCEPT
                        !.peak_active_streams =
                            compare_exchange(am_metrics.peak_active_streams,
                                             am_calls[c].current_peak,
                                             am_calls[c].active + 1)]
    /\ am_calls' = [am_calls EXCEPT ![c] = NoMetricsCall]
    /\ UNCHANGED <<wp_clock, wp_strategy, wp_permits, wp_breaker, wp_subs, wp_tasks,
                   wp_setters, wp_streak, wp_trip_at, regVars, am_seen, nonPoolVars>>

\* stream_completed for a stream that was counted
AmCompleted(c) ==
    /\ am_calls[c].pc = "idle"
    /\ am_seen.calls < MaxPeakCalls
    /\ am_metrics.active_streams > 0
    /\ am_metrics' = stream_completed(am_metrics)
    /\ am_seen' = [am_seen EXCEPT !.calls = am_seen.calls + 1]
    /\ UNCHANGED <<wp_clock, wp_strategy, wp_permits, wp_breaker, wp_subs, wp_tasks,
                   wp_setters, wp_streak, wp_trip_at, regVars, am_calls, nonPoolVars>>

\* update_memory_usage(current_bytes): peak_memory_usage_bytes.load and the
\* comparison
AmMemoryLoadPeak(c, current_bytes) ==
    /\ am_calls[c].pc = "idle"
    /\ am_seen.calls < MaxPeakCalls
    /\ am_calls' = [am_calls EXCEPT ![c] =
                       IF current_bytes > am_metrics.peak_memory_usage_bytes
                       THEN [NoMetricsCall EXCEPT
                               !.pc = "cas_memory", !.bytes = current_bytes,
                               !.current_peak = am_metrics.peak_memory_usage_bytes]
                       ELSE NoMetricsCall]
    /\ am_seen' = [am_seen EXCEPT
                     !.calls = am_seen.calls + 1,
                     !.memory = IF current_bytes > am_seen.memory
                                THEN current_bytes ELSE am_seen.memory]
    /\ UNCHANGED <<wp_clock, wp_strategy, wp_permits, wp_breaker, wp_subs, wp_tasks,
                   wp_setters, wp_streak, wp_trip_at, regVars, am_metrics, nonPoolVars>>

\* update_memory_usage: compare_exchange_weak(current_peak, current_bytes)
AmMemoryCas(c) ==
    /\ am_calls[c].pc = "cas_memory"
    /\ am_metrics' = [am_metrics EXCEPT
                        !.peak_memory_usage_bytes =
                            compare_exchange(am_metrics.peak_memory_usage_bytes,
                                             am_calls[c].current_peak,
                                             am_calls[c].bytes)]
    /\ am_calls' = [am_calls EXCEPT ![c] = NoMetricsCall]
    /\ UNCHANGED <<wp_clock, wp_strategy, wp_permits, wp_breaker, wp_subs, wp_tasks,
                   wp_setters, wp_streak, wp_trip_at, regVars, am_seen, nonPoolVars>>

PeaksNext ==
    \E c \in PeakCallers :
        \/ AmStartedFetchAdd(c)
        \/ AmStartedLoadPeak(c)
        \/ AmStartedCas(c)
        \/ AmCompleted(c)
        \/ \E current_bytes \in MemoryValues : AmMemoryLoadPeak(c, current_bytes)
        \/ AmMemoryCas(c)
SpecPeaks == Init /\ [][PeaksNext]_vars
SpecBatch == Init /\ [][BatchNext]_vars

\* A batcher that serves one context: every add_chunk names the context_type
\* of the first one.
BtAddChunkSameContext(chunk, context_type, expired, callback_ok) ==
    /\ bt_call.context_type \in {"", context_type}
    /\ BtAddChunk(chunk, context_type, expired, callback_ok)

\* The chunks of one stream in order: the limits of a batch depend on the
\* sizes and the is_last flags only.
NextChunks ==
    { StreamChunk("s1", bt_calls, size, is_last) :
        size \in ChunkSizes, is_last \in BOOLEAN }

OneContextNext ==
    \/ \E chunk \in NextChunks, context_type \in ContextTypes, expired \in BOOLEAN,
          callback_ok \in BOOLEAN :
          BtAddChunkSameContext(chunk, context_type, expired, callback_ok)
    \/ \E callback_ok \in BOOLEAN : BtForceFlush(callback_ok)
SpecOneContext == Init /\ [][OneContextNext]_vars
SpecEntry == Init /\ [][EntryNext]_vars
SpecMetrics == Init /\ [][MetricsNext]_vars

(***************************************************************************)
(* Properties                                                              *)
(***************************************************************************)
\* The location a path names lies outside every allowed root or inside a
\* restricted root.
OutsidePolicy(ctx, path) ==
    \/ \E r \in ctx.restricted_paths : starts_with(Normalize(path), r)
    \/ ~ \E a \in ctx.allowed_paths : starts_with(Normalize(path), a)

\* C2: every filesystem operation on a path outside the allowed roots or inside
\* a restricted root ('..' components and non-existent targets included) is
\* answered success=false with category Security and leaves the file system
\* unchanged.
C2_OutsidePathRefused ==
    (fs_last.op \in FsOperations /\ OutsidePolicy(FsContext, fs_last.path))
        => /\ fs_last.resp.success = FALSE
           /\ fs_last.resp.category = "Security"
           /\ fs_last.changed = FALSE

\* C8: a read of a path inside the policy after a completed write of that path
\* returns the content written, whatever writes to other paths ran in between.
C8_ReadAfterWrite ==
    (fs_last.op = "read" /\ fs_written[fs_last.path].set
        /\ ~ OutsidePolicy(FsContext, fs_last.path))
        => /\ fs_last.resp.success
           /\ fs_last.resp.content = fs_written[fs_last.path].c

\* A command request fails one of the security checks of the command executor.
FailsSecurityCheck(ctx, whitelist, fs, r) ==
    \/ r.command \notin whitelist
    \/ \E pattern \in BLOCKED_PATTERNS :
          Contains(Chars(r.command) \o <<" ">> \o Join(r.args), pattern)
    \/ r.working_directory # NoDir /\ ~ validate_path_access(ctx, fs, r.working_directory)
    \/ ~ (r.environment \subseteq ALLOWED_ENV_VARS)
    \/ ProcessSpawn \notin ctx.capabilities
    \/ ~ validate_command_arguments(r.command, r.args)

\* C10: a command request that fails any security check (whitelist, blocked
\* substring, working directory, environment key, ProcessSpawn capability,
\* per-command argument) is answered success=false, SECURITY_VIOLATION,
\* category Security, and spawns no child process.
C10_FailedCheckRefused ==
    (cmd_last.seen /\ cmd_last.req.has_command
        /\ FailsSecurityCheck(cmd_ctx, cmd_whitelist, fsys, cmd_last.req))
        => /\ cmd_last.resp.success = FALSE
           /\ cmd_last.resp.code = "SECURITY_VIOLATION"
           /\ cmd_last.resp.category = "Security"
           /\ cmd_last.spawned = FALSE

\* A whitelisted command is refused for a forbidden argument alone.
C10_Witness ==
    /\ cmd_last.seen /\ cmd_last.req.has_command
    /\ cmd_last.req.command = "git"
    /\ cmd_last.req.working_directory = TmpDir
    /\ ProcessSpawn \in cmd_ctx.capabilities
    /\ ~ validate_command_arguments(cmd_last.req.command, cmd_last.req.args)
    /\ cmd_last.resp.code = "SECURITY_VIOLATION"
    /\ cmd_last.spawned = FALSE

\* The instants of a session's passes that fall in the window opening at t.
PassedInWindow(sid, t) ==
    { j \in 1..Len(pr_passed[sid]) :
         pr_passed[sid][j] >= t /\ pr_passed[sid][j] <= t + RateWindowSecs }

\* C1: for every session, every 60-second window holds at most
\* max_messages_per_minute lines that passed check_rate_limit (it is enough to
\* look at the windows that open at a pass).
C1_RateWindow ==
    \A sid \in SessionIds :
        \A i \in 1..Len(pr_passed[sid]) :
            Cardinality(PassedInWindow(sid, pr_passed[sid][i])) <= max_messages_per_minute

\* A session was limited, and passed lines again once the window had moved on,
\* while the other session passed lines too.
C1_Witness ==
    /\ Len(pr_passed["s1"]) > max_messages_per_minute
    /\ Len(pr_passed["default"]) > 0
    /\ \E i \in 1..Len(pr_hist) :
          /\ pr_hist[i].line.session = "s1"
          /\ pr_hist[i].msg.code = "RATE_LIMIT_EXCEEDED"

\* An ExecutionRequest line of the default session for the filesystem tool with
\* arguments {path, content} and no other argument.
IsFsLine(line, operation) ==
    /\ line.payload = "ExecutionRequest" /\ line.parses /\ line.session = NoSession
    /\ line.request.tool_id = "filesystem"
    /\ line.request.operation = operation
    /\ line.request.arguments.operation = "none"
    /\ line.request.arguments.has_path
    /\ starts_with(line.request.arguments.path, TmpDir)

\* C9: a filesystem write request with arguments {path, content} under the temp
\* directory in a session holding the file-write capability, followed by a read
\* request with arguments {path} for the same path, is answered by two Response
\* messages with success=true, the second carrying the content written.
C9_WriteThenRead ==
    (/\ Len(pr_hist) = 2
     /\ IsFsLine(pr_hist[1].line, "write")
     /\ IsFsLine(pr_hist[2].line, "read")
     /\ pr_hist[1].line.request.arguments.path = pr_hist[2].line.request.arguments.path
     /\ FileWrite(TmpDir) \in pr_sessions["default"].security_context.capabilities)
        => /\ pr_hist[1].msg.type = "Response" /\ pr_hist[1].msg.success
           /\ pr_hist[2].msg.type = "Response" /\ pr_hist[2].msg.success
           /\ pr_hist[2].msg.content = pr_hist[1].line.request.arguments.content

\* The tasks that hold a permit.
PermitHolders == { i \in SubIds : wp_tasks[i].pc \in {"running", "exiting"} }

\* C4: at most max_concurrent_streams tasks hold a permit at any instant, and
\* the tasks holding a permit plus the available permits are always
\* max_concurrent_streams, under every backpressure strategy.
C4_PermitsBounded ==
    /\ Cardinality(PermitHolders) <= max_concurrent_streams
    /\ Cardinality(PermitHolders) + wp_permits = max_concurrent_streams

\* All permits are taken while a further submission is refused or waits.
C4_Witness ==
    /\ Cardinality(PermitHolders) = max_concurrent_streams
    /\ wp_permits = 0
    /\ \E i \in SubIds :
          wp_subs[i].result \in {"streaming_concurrency", "backpressure_timeout",
                                 "streaming_concurrency_drop_oldest"}

\* C5: a submission made after the threshold of consecutive failures was
\* recorded and before the recovery period has elapsed since the trip returns
\* circuit_breaker_open, acquires no permit and starts no task.
C5_OpenBreakerRejects ==
    \A i \in SubIds :
        wp_subs[i].due_reject
            => /\ wp_subs[i].pc = "done"
               /\ wp_subs[i].result = "circuit_breaker_open"
               /\ wp_tasks[i].pc = "none"

\* C7: every batch handed to the batch callback holds chunks of one stream id
\* whose sequences are contiguous and increasing, for any calls of add_chunk
\* and force_flush.
C7_BatchOneStreamContiguous ==
    /\ \A i, j \in 1..Len(bt_handed) : bt_handed[i].stream_id = bt_handed[j].stream_id
    /\ \A i \in 1..(Len(bt_handed) - 1) :
          bt_handed[i + 1].sequence = bt_handed[i].sequence + 1

\* C3: every file opened and every child spawned by an entry point belongs to a
\* request that passes the checks of the service's security context.
C3_EffectsPassPolicy == \A e \in en_effects : e.allowed

\* C6: a finished stream whose source was read and whose callback calls all
\* succeeded has delivered sequences 0, 1, 2, ... to its callback, and exactly
\* the last chunk delivered has is_last.
C6_StreamSequences ==
    \A s \in StreamIds :
        (st_streams[s].pc = "done" /\ st_streams[s].produced /\ ~ st_streams[s].failed)
            => /\ Len(st_delivered[s]) >= 1
               /\ \A k \in 1..Len(st_delivered[s]) :
                     /\ st_delivered[s][k].sequence = k - 1
                     /\ st_delivered[s][k].is_last <=> (k = Len(st_delivered[s]))


\* C11: a command whose child runs longer than the timeout completes with
\* success = false, error code "COMMAND_TIMEOUT" and category Timeout.
C11_TimeoutReported ==
    (cmd_last.seen /\ cmd_last.outcome = "timeout")
        => /\ cmd_last.resp.success = FALSE
           /\ cmd_last.resp.code = "COMMAND_TIMEOUT"
           /\ cmd_last.resp.category = "Timeout"

\* C12: on timeout the child is sent a termination signal and is reaped; once
\* the request has completed, no child of it is left running or as a zombie.
C12_NoChildLeftBehind ==
    cmd_last.seen
        => /\ cmd_last.child.state \in {"none", "reaped"}
           /\ cmd_last.outcome = "timeout" => "SIGTERM" \in cmd_last.child.signals

\* C13: every spawned child has the four resource limits (address space, CPU
\* seconds, file descriptors, process count) set in it before the command starts.
C13_LimitsInEveryChild ==
    (cmd_last.seen /\ cmd_last.spawned) => cmd_last.child.limits = ResourceLimitKinds


\* The task of submission i records a result in this step: a success, a failure.
TaskSucceeds(i) ==
    /\ wp_tasks[i].pc = "running" /\ wp_tasks'[i].pc = "exiting"
    /\ wp_streak' = 0
TaskFails(i) ==
    /\ wp_tasks[i].pc = "running" /\ wp_tasks'[i].pc = "exiting"
    /\ wp_streak' > 0

\* C14: once recovery_ms has elapsed since the trip, the next admitted task
\* that completes successfully leaves the breaker Closed with
\* consecutive_failures = 0, however the submission, the Open-to-HalfOpen
\* transition and the completion interleave.
C14_RecoveredSuccessCloses ==
    [][\A i \in SubIds :
          (/\ wp_subs[i].recovered
           /\ \A j \in SubIds \ {i} : wp_tasks[j].pc \in {"none", "gone"} /\ ~ wp_subs[j].recovered
           /\ TaskSucceeds(i))
          => /\ wp_breaker'.state = "Closed"
             /\ wp_breaker'.consecutive_failures = 0]_vars

\* C15: the breaker's mode changes only Closed -> Open with the failure count
\* at the threshold, Open -> HalfOpen once recovery_ms has elapsed since the
\* most recent trip, HalfOpen -> Closed on a success and HalfOpen -> Open on a
\* failure.
C15_BreakerTransitions ==
    [][wp_breaker'.state # wp_breaker.state
          => \/ /\ wp_breaker.state = "Closed" /\ wp_breaker'.state = "Open"
                /\ wp_breaker'.consecutive_failures >= circuit_breaker_threshold
             \/ /\ wp_breaker.state = "Open" /\ wp_breaker'.state = "HalfOpen"
                /\ wp_breaker.has_trip
                /\ wp_clock - wp_breaker.trip_time >= circuit_breaker_recovery_ms
             \/ /\ wp_breaker.state = "HalfOpen" /\ wp_breaker'.state = "Closed"
                /\ \E i \in SubIds : TaskSucceeds(i)
             \/ /\ wp_breaker.state = "HalfOpen" /\ wp_breaker'.state = "Open"
                /\ \E i \in SubIds : TaskFails(i)]_vars


\* This step reads a line that check_rate_limit refuses: the line is answered
\* at once with the error and is not kept for processing.
RateLimitedStep ==
    /\ pr_lines' = pr_lines + 1
    /\ pr_pending' = NoLine
    /\ Len(pr_hist') > 0
    /\ pr_hist'[Len(pr_hist')].msg = ErrorMessage("RATE_LIMIT_EXCEEDED")

\* C16: a line refused by the rate limiter is not parsed or forwarded to an
\* executor, is answered by one Error "RATE_LIMIT_EXCEEDED", and has no other
\* effect: the session table (last_activity, message_count and timestamps of
\* every session) is as it was before the line.
C16_RateLimitedLineNoEffect ==
    [][RateLimitedStep
          => /\ pr_sessions' = pr_sessions
             /\ UNCHANGED <<fsys, cmd_spawned, pr_passed>>]_vars


\* Security contexts the service constructs: the default one, the file
\* executor's, and contexts for base directories "/" and /home ("/" is an
\* allowed root that contains the restricted roots).
PathContexts ==
    {SecurityContext_new, FsContext, for_file_operations(<<>>), for_file_operations(HomeDir)}

\* root is a prefix of path, component by component.
IsPrefixOf(root, path) ==
    /\ Len(root) <= Len(path)
    /\ \A i \in 1..Len(root) : path[i] = root[i]

UnderRestricted(ctx, fs, p) ==
    \E r \in ctx.restricted_paths :
        IsPrefixOf(canonicalize_or_literal(fs, r), canonicalize_or_literal(fs, p))
UnderAllowed(ctx, fs, p) ==
    \E a \in ctx.allowed_paths :
        IsPrefixOf(canonicalize_or_literal(fs, a), canonicalize_or_literal(fs, p))

EtcNewPath == TmpDir \o <<DotDot, D("etc"), F("new", "txt")>>

\* C17: validate_path_access(p) succeeds exactly when, for the canonical form
\* of p (the literal path when canonicalization fails), no restricted root is
\* a prefix and some allowed root is; a restricted root wins over an allowed
\* root that also contains p.
C17_PathAccessRule ==
    \A ctx \in PathContexts, p \in ReqPaths :
        /\ validate_path_access(ctx, fsys, p)
              <=> (~ UnderRestricted(ctx, fsys, p) /\ UnderAllowed(ctx, fsys, p))
        /\ (UnderRestricted(ctx, fsys, p) /\ UnderAllowed(ctx, fsys, p))
              => ~ validate_path_access(ctx, fsys, p)

\* /tmp/../etc/new.txt was accepted in its literal form while it did not
\* exist; now that it exists its canonical form /etc/new.txt is under a
\* restricted root and the last request on it was refused.  And /etc/passwd is
\* refused under a context whose allowed root "/" contains it.
C17_Witness ==
    /\ validate_path_access(FsContext, FsInitial, EtcNewPath)
    /\ PathExists(fsys, EtcNewPath)
    /\ UnderRestricted(FsContext, fsys, EtcNewPath)
    /\ fs_last.path = EtcNewPath /\ fs_last.op = "read" /\ fs_last.resp = FsSecurity
    /\ UnderAllowed(for_file_operations(<<>>), fsys, EtcDir \o <<F("passwd", "")>>)
    /\ ~ validate_path_access(for_file_operations(<<>>), fsys, EtcDir \o <<F("passwd", "")>>)


\* The context holds a capability of the operation's kind that covers the
\* path, and the path passes validate_path_access.
Authorised(ctx, fs, op, path) ==
    /\ validate_path_access(ctx, fs, path)
    /\ \E held \in ctx.capabilities :
          /\ held.cap = (IF op \in {"read", "exists", "get_info", "list"}
                         THEN "FileRead" ELSE "FileWrite")
          /\ starts_with(canonicalize_or_literal(fs, path),
                         canonicalize_or_literal(fs, held.path))

\* The line being processed is a request of session sid to the filesystem
\* tool for operation op on a path, with no environment variables.
FsRequestOf(line, sid, op) ==
    /\ line.parses /\ line.payload = "ExecutionRequest"
    /\ sid = (IF line.session = NoSession THEN "default" ELSE line.session)
    /\ line.request.tool_id = "filesystem"
    /\ line.request.operation = op /\ line.request.arguments.operation = op
    /\ line.request.arguments.has_path
    /\ line.request.environment = {}

\* C18: a filesystem request is refused for security exactly when its path
\* fails validation or no capability of the operation's kind covers it:
\* FileRead for read, exists, get_info and list, FileWrite for write, append,
\* delete and create_dir, at the handler's check (session context) and at the
\* executor's check (executor context).
C18_FsRequestAuthorised ==
    [][\A sid \in SessionIds, op \in FsOperations :
          (/\ pr_pending # NoLine /\ pr_pending' = NoLine
           /\ FsRequestOf(pr_pending, sid, op)
           /\ pr_sessions[sid].live)
          => LET path == pr_pending.request.arguments.path
                 answer == pr_hist'[Len(pr_hist')].msg
             IN  (answer.code = "SECURITY_VIOLATION")
                    <=> ~ (/\ Authorised(pr_sessions[sid].security_context, fsys, op, path)
                           /\ Authorised(FsContext, fsys, op, path))]_vars


\* C19: each stream has its own batcher: the chunks produced for a stream are
\* handed to a batcher created for that stream and delivered to the callback
\* supplied with it, and when the producer has finished (its callback calls
\* succeeding) none of its chunks is left undelivered, however concurrently
\* started streams interleave.
C19_OwnBatcherPerStream ==
    \A s \in StreamIds :
        (st_streams[s].pc = "done" /\ st_streams[s].produced /\ st_streams[s].chunks > 0)
            => /\ st_streams[s].handed_to = s
               /\ ~ st_streams[s].failed => st_streams[s].undelivered = 0


\* C20: cancel_task(id), called after execute_file_stream has returned id and
\* while the task has not finished, returns true and stops the task (which
\* releases its permit), whatever the pool's own bookkeeping has done so far.
C20_CancelStopsTask ==
    \A i \in SubIds :
        (wp_cancels[i].called /\ wp_cancels[i].live)
            => /\ wp_cancels[i].result
               /\ wp_tasks[i].pc = "gone"


\* C21: shutdown_gracefully waits until every submitted task has finished and
\* then returns without force-cancelling; it force-cancels only tasks that
\* are left at the timeout; when it returns no submitted task is running.
C21_ShutdownWaitsThenForces ==
    wp_shutdown.pc = "returned"
        => /\ ~ wp_shutdown.left_running
           /\ ~ (wp_shutdown.forced /\ wp_shutdown.all_finished)

\* A Shutdown message that parse_and_process_message answered with a Shutdown
\* payload.
ShutdownAnswered(entry) ==
    /\ entry.line.parses
    /\ entry.line.payload = "Shutdown"
    /\ entry.msg.payload = "Shutdown"

\* A line that reached parse_and_process_message.
Dispatched(entry) ==
    /\ entry.line.size <= max_message_size
    /\ entry.line.schema_ok
    /\ entry.msg.code # "RATE_LIMIT_EXCEEDED"

\* C22: once the handler has answered a Shutdown message with a Shutdown
\* message the read loop exits: no line that follows it is handed to
\* parse_and_process_message.
C22_NothingAfterShutdown ==
    /\ \A k \in 1..(Len(pr_hist) - 1) :
          ShutdownAnswered(pr_hist[k]) => ~ Dispatched(pr_hist[k + 1])
    /\ (Len(pr_hist) > 0 /\ ShutdownAnswered(pr_hist[Len(pr_hist)]))
          => pr_pending = NoLine

\* C23: the messages are written in the order they were enqueued, and when
\* run_communication_loop has returned every message enqueued before has
\* been written and flushed.
C23_AllWrittenAtReturn ==
    lp_pc.loop = "returned" => lp_queue = <<>>

\* Every message the handler sent that is kept: the answers remembered, the
\* channel and the output.
MessagesSent ==
    { pr_hist[k].msg : k \in 1..Len(pr_hist) } \cup { lp_queue[k] : k \in 1..Len(lp_queue) }
        \cup { lp_written[k] : k \in 1..Len(lp_written) }

\* The payload variant that belongs to a message type.
PayloadOf(type) ==
    CASE type = "Request" -> "ExecutionRequest"
      [] type = "Response" -> "ExecutionResponse"
      [] type = "Stream" -> "StreamUpdate"
      [] OTHER -> type

\* C24: every message the handler constructs or emits pairs its type with
\* the payload variant of that type.
C24_TypeMatchesPayload ==
    \A msg \in MessagesSent \ {NoMessage} : msg.payload = PayloadOf(msg.type)

\* C26: a line longer than max_message_size is answered with an Error
\* message: one Error message is enqueued for it, the line is not dispatched
\* and the read loop goes on.
C26_OversizeLineGetsError ==
    \A k \in 1..Len(pr_hist) :
       pr_hist[k].line.size > max_message_size => pr_hist[k].msg.type = "Error"

\* C27: the reply to a HealthCheck reports Healthy exactly when the
\* filesystem and the command executor are both registered.
C27_HealthyIffExecutorsRegistered ==
    [][ (pr_pending.parses /\ pr_pending.payload = "HealthCheck"
           /\ pr_pending' = NoLine /\ Len(pr_hist') > 0)
        => LET reply == pr_hist'[Len(pr_hist')].msg
           IN  (reply.code = "Healthy")
                  <=> (pr_registry.filesystem_executor /\ pr_registry.command_executor)
      ]_vars

\* The error record and the result of a response: a response carries one or
\* the other, and code "OK" stands for the one that carries the result.
HasError(resp) == resp.code # "OK"
HasResult(resp) == resp.code = "OK"

\* C25: every ExecutionResponse is consistent: without success it carries an
\* error record, with success it carries a result and no error record; a
\* command that exits non-zero yields success = false with an error record.
C25_ResponseConsistent ==
    cmd_last.seen
        => /\ ~ cmd_last.resp.success => HasError(cmd_last.resp)
           /\ cmd_last.resp.success
                 => HasResult(cmd_last.resp) /\ ~ HasError(cmd_last.resp)

\* C28: a request that captures output gets stdout cut at max_output_size,
\* with the marker "... (truncated at N bytes)" when it was cut.
C28_OutputTruncated ==
    (cmd_last.seen /\ cmd_last.req.capture_output
       /\ cmd_last.outcome \in {"exit_zero", "exit_nonzero"})
        => cmd_last.stdout = truncated(cmd_last.written)

\* C29: every entry of the whitelist is a non-empty name without spaces, path
\* separators or shell metacharacters, whatever its source and after any
\* add, remove or set call.
C29_WhitelistNamesValid ==
    \A command \in cmd_whitelist :
       LET cs == Chars(command)
       IN  /\ cs # <<>>
           /\ \A i \in 1..Len(cs) :
                 cs[i] \notin {" ", "/", "\\"} \cup SHELL_METACHARS

\* The counters agree: every request counted is counted as a success or as a
\* failure.
MetricsConsistent ==
    mx_metrics.total_requests
        = mx_metrics.successful_requests + mx_metrics.failed_requests

\* The step in which caller t, holding the lock for a call of the given kind,
\* goes from one position to the other.
MetricsStep(t, kind, from, to) ==
    /\ mx_callers[t].kind = kind
    /\ mx_callers[t].pc = from
    /\ mx_callers'[t].pc = to

\* C30: whenever the metrics can be read, total_requests = successful_requests
\* + failed_requests; every dispatched execute adds exactly 1 to
\* total_requests; reset sets the three counters to 0; under any interleaving
\* of execute, read_file_fast and reset.
C30_MetricsCountersAgree ==
    /\ [](mx_lock = NoHolder => MetricsConsistent)
    /\ [][ \A t \in Callers :
             /\ MetricsStep(t, "execute", "locked", "counted")
                   => mx_metrics'.total_requests = mx_metrics.total_requests + 1
             /\ MetricsStep(t, "execute", "counted", "idle")
                   => mx_metrics'.total_requests = mx_metrics.total_requests
             /\ MetricsStep(t, "reset", "locked", "idle")
                   => mx_metrics' = PerformanceMetrics_default ]_vars

\* A success and a failure have been counted, nobody holds the lock, and a
\* reset is waiting for it.
C30_Witness ==
    /\ mx_lock = NoHolder
    /\ mx_metrics.successful_requests = 1
    /\ mx_metrics.failed_requests = 1
    /\ mx_metrics.total_requests = 2
    /\ \E t \in Callers : mx_callers[t].kind = "reset" /\ mx_callers[t].pc = "waiting"

\* C31: while the breaker is Closed a successful completion resets
\* consecutive_failures to 0, so the breaker opens only after the threshold
\* of failures with no success between them.
C31_SuccessResetsFailures ==
    [][ /\ \A i \in SubIds :
             (wp_breaker.state = "Closed" /\ TaskSucceeds(i))
                => wp_breaker'.consecutive_failures = 0
        /\ (wp_breaker.state = "Closed" /\ wp_breaker'.state = "Open")
                => wp_streak' >= circuit_breaker_threshold ]_vars
\* No admitted task is running or returning.
PoolIdle == \A i \in SubIds : wp_tasks[i].pc \notin {"running", "exiting"}

\* C32: every admitted task eventually finishes (producer done, cancelled or
\* timed out) and gives its permit back: whenever no task is running all
\* max_concurrent_streams permits are available.  Tasks never restart, so
\* the tasks admitted so far have all finished each time the pool is idle.
C32_TasksEndPermitsReturn ==
    /\ [](PoolIdle => wp_permits = max_concurrent_streams)
    /\ []<>PoolIdle

\* One task was aborted by cancel_task while running, another returned by
\* itself, and the pool is idle with every permit back.
C32_Witness ==
    /\ PoolIdle
    /\ wp_permits = max_concurrent_streams
    /\ \E i, j \in 1..MaxCancelSubs :
          /\ i # j
          /\ wp_cancels[i].called /\ wp_cancels[i].result /\ wp_cancels[i].live
          /\ wp_tasks[i].pc = "gone"
          /\ ~ wp_cancels[j].result /\ wp_tasks[j].pc = "gone"
\* The admitted tasks whose select! has not yet produced a result, and those
\* that have not yet returned.
RunningTasks == { i \in SubIds : wp_tasks[i].pc = "running" }
LiveTasks == { i \in SubIds : wp_tasks[i].pc \in {"running", "exiting"} }

\* C33: active_streams is the number of admitted tasks that have started and
\* not yet ended (a task that has its result and is about to return may or
\* may not be counted), so it is 0 whenever the pool is idle.
C33_ActiveStreamsCountsRunning ==
    /\ Cardinality(RunningTasks) <= am_metrics.active_streams
    /\ am_metrics.active_streams <= Cardinality(LiveTasks)
\* No call of stream_started or update_memory_usage is between its steps.
NoUpdateInProgress == \A c \in PeakCallers : am_calls[c].pc = "idle"

\* C34: the two peaks never decrease, and whenever no update is in progress
\* each equals the largest value active_streams (the reported memory usage)
\* has ever had, for every interleaving of the calls.
C34_PeaksAreMaxima ==
    /\ [][ /\ am_metrics'.peak_active_streams >= am_metrics.peak_active_streams
           /\ am_metrics'.peak_memory_usage_bytes >= am_metrics.peak_memory_usage_bytes
         ]_vars
    /\ [](NoUpdateInProgress =>
            /\ am_metrics.peak_active_streams = am_seen.active
            /\ am_metrics.peak_memory_usage_bytes = am_seen.memory)

\* get_status().active_tasks: tasks.len() of the active-task table
get_status_active_tasks == Cardinality(wp_active)

\* C35: the active-task table holds exactly the tasks that are still running,
\* from the return of execute_file_stream until the task ends (a task that
\* has its result and is about to return may or may not be listed), so
\* get_status().active_tasks is the number of running tasks.
C35_ActiveTasksAreRunning ==
    /\ RunningTasks \subseteq wp_active
    /\ wp_active \subseteq LiveTasks
    /\ Cardinality(RunningTasks) <= get_status_active_tasks
    /\ get_status_active_tasks <= Cardinality(LiveTasks)
\* C36: a stream whose producer failed (the file cannot be opened or read,
\* the child cannot be spawned) ends its worker-pool task with an error, so
\* the breaker counts the failure.
C36_ProducerFailureFailsTask ==
    \A s \in StreamIds :
        (st_streams[s].pc = "done" /\ ~ st_streams[s].produced)
            => /\ st_streams[s].failed
               /\ wp_streak > 0

\* The sizes of the chunks of a batch, added up.
RECURSIVE chunk_bytes(_)
chunk_bytes(chunks) ==
    IF chunks = <<>> THEN 0 ELSE chunks[1].size + chunk_bytes(Tail(chunks))

\* C37: after every call that handed a batch to the callback, whether the
\* callback succeeded or failed, the pending batch is reset (no chunks,
\* total_bytes = 0, no sequence range); total_bytes is the sum of the sizes
\* of the pending chunks in every state.
C37_BatchResetAfterEmission ==
    /\ bt_handed # <<>> =>
          /\ bt_batcher.chunks = <<>>
          /\ bt_batcher.total_bytes = 0
          /\ bt_batcher.range = <<>>
    /\ bt_batcher.total_bytes = chunk_bytes(bt_batcher.chunks)
\* C38: for every context, a batch handed to the callback has at most
\* max_chunks chunks, and after an add_chunk that returned Ok the pending
\* batch has fewer than max_chunks chunks, fewer bytes than the priority
\* threshold and than max_bytes, and does not end with an is_last chunk.
C38_BatchWithinLimits ==
    LET batch_params == get_context_params(bt_call.context_type)
        pending == bt_batcher.chunks
    IN  /\ Len(bt_handed) <= batch_params.max_chunks
        /\ (bt_call.op = "add_chunk" /\ bt_call.ok) =>
              /\ Len(pending) < batch_params.max_chunks
              /\ bt_batcher.total_bytes < batch_params.priority_threshold
              /\ bt_batcher.total_bytes < batch_params.max_bytes
              /\ pending # <<>> => ~ pending[Len(pending)].is_last

\* An add_chunk returned Ok after it delivered a batch of max_chunks chunks
\* that neither the byte thresholds nor an is_last chunk had flushed before.
C38_Witness ==
    /\ bt_call.op = "add_chunk" /\ bt_call.ok
    /\ Len(bt_handed) = get_context_params(bt_call.context_type).max_chunks
    /\ chunk_bytes(bt_handed) < get_context_params(bt_call.context_type).priority_threshold
    /\ ~ bt_handed[Len(bt_handed)].is_last

\* The session a line is attributed to: its session_id, or "default".
SessionOf(line) == IF line.session = NoSession THEN "default" ELSE line.session

\* C39: a line that passed the rate-limit check and is parsed adds one to the
\* message_count of its session, where a line without a session_id counts
\* for the session "default"; a line that does not parse changes no session.
C39_MessageCountCountsLines ==
    [][ (pr_pending # NoLine /\ pr_pending' = NoLine) =>
          IF pr_pending.parses
          THEN LET sid == SessionOf(pr_pending)
               IN  /\ pr_sessions'[sid].live
                   /\ pr_sessions'[sid].message_count =
                         (IF pr_sessions[sid].live
                          THEN pr_sessions[sid].message_count ELSE 0) + 1
          ELSE pr_sessions' = pr_sessions ]_vars

\* The session's last activity is less than the expiry duration ago.
RecentlyActive(sid) ==
    pr_sessions[sid].live /\ pr_clock - pr_sessions[sid].last_activity < SessionExpirySecs

\* C40: after every run of cleanup_expired_sessions the session table holds
\* exactly the sessions whose last activity is less than one hour old: the
\* others are removed, and a recently active session is neither removed nor
\* modified.
C40_CleanupKeepsRecentOnly ==
    /\ [](pr_cleaned => \A sid \in SessionIds : pr_sessions[sid].live => RecentlyActive(sid))
    /\ [][pr_cleaned' =>
            \A sid \in SessionIds :
                /\ RecentlyActive(sid) => pr_sessions'[sid] = pr_sessions[sid]
                /\ ~ pr_sessions[sid].live => ~ pr_sessions'[sid].live]_vars

\* A run of cleanup removed a session idle for exactly the expiry duration and
\* kept a session with later activity.
C40_Witness ==
    /\ pr_cleaned
    /\ \E kept, removed \in SessionIds :
          /\ pr_sessions[kept].live
          /\ pr_sessions[kept].message_count > 0
          /\ ~ pr_sessions[removed].live
          /\ pr_passed[removed] # <<>>
          /\ pr_clock - pr_passed[removed][Len(pr_passed[removed])] = SessionExpirySecs
====
